---- MODULE Spec2Model ----
(***************************************************************************)
(* A model of the sambilila worker (src/index.ts): the retry executor      *)
(* executeWithRetry, the bounded batch runner runInBatches, the job        *)
(* processors processFlashcardJob / processQuizJob and the poll scheduler  *)
(* (pollJobs, safePollJobs, main, shutdown).                               *)
(*                                                                         *)
(* The specifications share the module's variables:                       *)
(*   SpecRetry  one call of executeWithRetry, any maxRetries, any outcomes *)
(*   SpecBatch  one call of runInBatches, any task list, any limit         *)
(*   Spec       the worker process: main, the timer, the poll cycle, the   *)
(*              batch runner and the job processors over the job tables    *)
(*   SpecBuilds the process runs main() of src/index.ts, as in Spec, or    *)
(*              the loop runWorker() of the build src/dist/index.js        *)
(*   SpecCycle  the first poll cycle over tables that hold several jobs    *)
(*   SpecFetch  the first poll cycle over a table of more rows than a      *)
(*              batch takes, in several creation orders                    *)
(*   SpecLive   the worker with a fair timer and every call returning      *)
(*   SpecSignals  the worker with signals at any time and either db module *)
(*   SpecProcess  SpecSignals with faults outside the processors           *)
(*   SpecTwoWorkers  the worker and a second worker on the same tables     *)
(*   SpecReferences  the first poll cycle, jobs with file references       *)
(*   SpecContents    the first poll cycle, texts at the minimum length     *)
(*   SpecLoad   the first poll cycle over more jobs than the limit         *)
(* Each specification leaves the other parts' variables at their initial   *)
(* values.                                                                 *)
(***************************************************************************)
EXTENDS Integers, Sequences, FiniteSets, TLC

VARIABLES
    \* ---- executeWithRetry (one call, SpecRetry)
    maxRetries,     \* the maxRetries argument
    i,              \* the loop variable
    lastError,      \* the lastError local
    retryPc,        \* "idle" | "call" | "sleep" | "returned" | "thrown"
    retryResult,    \* what the call returned or threw
    invocations,    \* how many times queryFn was invoked
    outcomes,       \* the outcome of each invocation, in order
    sleeps,         \* the setTimeout delays (ms) the call waited, in order
    \* ---- runInBatches (one call at a time)
    tasks,          \* the tasks argument: a sequence of task ids
    limit,          \* the limit argument
    index,          \* the cursor into tasks
    active,         \* the active array: the promises of the started tasks
    taskState,      \* per task, its promise: "unstarted" | "pending" | "fulfilled" | "rejected"
    started,        \* per task, how many times task() was called
    awaited,        \* the tasks a runNext frame is suspended on (await promise)
    chainsTotal,    \* the length of initialBatch
    chainsReturned, \* how many promises of initialBatch have resolved
    batchPc,        \* "idle" | "ready" | "running" | "resolved" | "rejected"
    \* ---- the worker process
    mainPc,         \* main(): "probe" | "initialPoll" | "running" | "exited"
    probeAttempt,   \* the attempt (i) of the connectivity probe's executeWithRetry
    exitCode,       \* the code given to process.exit, -1 while the process runs
    timerInstalled, \* setInterval(safePollJobs) is installed and not cleared
    ticks,          \* how many times the interval timer has fired
    isPolling,      \* the isPolling flag
    shutdownRequested, \* the shutdownRequested flag
    shutdownPc,     \* shutdown(): "none" | "draining" | "disconnecting"
    activePollJobs, \* how many invocations of pollJobs have not returned
    pollPc,         \* pollJobs(): "idle" | "fetch" | "batch"
    pollKind,       \* the job type the cycle is at: "flashcard" | "quiz"
    fetchAttempt,   \* the attempt (i) of the fetch query's executeWithRetry
    jobs,           \* the rows of flashcard_jobs and quiz_job, by job id
    proc,           \* per job, the state of its processFlashcardJob/processQuizJob run
    artifacts,      \* the flashcardSet / quiz rows created, with their children
    dbCleanup,      \* the db module has registered its cleanup on SIGINT / SIGTERM
    released,       \* prisma.$disconnect() has been called
    shutdownCause,  \* what called shutdown(): "none" | "signal" | "fault"
    signalledAt,    \* where main() was when the first SIGTERM / SIGINT arrived, or "none"
    peer            \* a second worker process polling the same tables

retryVars == <<maxRetries, i, lastError, retryPc, retryResult, invocations,
               outcomes, sleeps>>

batchVars == <<tasks, limit, index, active, taskState, started, awaited,
               chainsTotal, chainsReturned, batchPc>>

workerVars == <<mainPc, probeAttempt, exitCode, timerInstalled, ticks, isPolling,
                shutdownRequested, shutdownPc, activePollJobs, pollPc, pollKind,
                fetchAttempt, jobs, proc, artifacts, dbCleanup, released, shutdownCause, signalledAt,
                peer>>

handlerVars == <<dbCleanup, released, shutdownCause, signalledAt>>

vars == <<retryVars, batchVars, workerVars>>

----------------------------------------------------------------------------
(* Errors.  A JavaScript error is modelled by its code (a Prisma code or   *)
(* "none"), its name and its message; a message is a sequence of words,    *)
(* and hasMessage = FALSE is an error whose message is undefined.          *)

Err(code, name, hasMessage, message) ==
    [code |-> code, name |-> name, hasMessage |-> hasMessage, message |-> message]

NoError == Err("none", "none", FALSE, << >>)

TooManyConnections == <<"too", "many", "connections">>

\* The errors a persistence call is given to fail with.
PoolCodeError     == Err("P2037", "PrismaClientKnownRequestError", TRUE, <<"pool", "exhausted">>)
PoolMessageError  == Err("none", "Error", TRUE, <<"sorry", "too", "many", "connections", "for", "role">>)
PoolCodeNoMessage == Err("P2037", "PrismaClientKnownRequestError", FALSE, << >>)
CapitalisedError  == Err("none", "Error", TRUE, <<"Too", "many", "connections">>)
SplitPhraseError  == Err("P2002", "PrismaClientKnownRequestError", TRUE, <<"too", "many", "open", "connections">>)
ConstraintError   == Err("P2002", "PrismaClientKnownRequestError", TRUE, <<"unique", "constraint", "failed">>)
BareError         == Err("none", "Error", FALSE, << >>)

RetryErrors == {PoolCodeError, PoolMessageError, PoolCodeNoMessage, CapitalisedError,
                SplitPhraseError, ConstraintError, BareError}

ResultValues == {"rows", "count"}
NoValue == "none"

\* String.prototype.includes, scanning the message from its start.
RECURSIVE IncludesFrom(_, _, _)
IncludesFrom(message, needle, from) ==
    IF from + Len(needle) - 1 > Len(message) THEN FALSE
    ELSE IF SubSeq(message, from, from + Len(needle) - 1) = needle THEN TRUE
    ELSE IncludesFrom(message, needle, from + 1)

Includes(message, needle) == IncludesFrom(message, needle, 1)

\* A mutant of IsTransient: every error is retried.
IsTransientAnyError(error) == TRUE

\* A mutant of IsTransient: only the error code is looked at.
IsTransientCodeOnly(error) == error.code = "P2037"

\* src/index.ts:37: error.code === 'P2037' || error.message?.includes('too many connections')
IsTransient(error) ==
    \/ error.code = "P2037"
    \/ (error.hasMessage /\ Includes(error.message, TooManyConnections))

\* A mutant of LoopContinues: one attempt too many.
LoopContinuesOffByOne(n, max) == n <= max

\* src/index.ts:29: the loop condition i < maxRetries
LoopContinues(n, max) == n < max

\* src/index.ts:39: the delay 1000 * (i + 1)
BackoffBase == 1000
BackoffDelay(n) == BackoffBase * (n + 1)

DefaultMaxRetries == 3
MaxRetriesBound == 3

Ok(value)   == [ok |-> TRUE,  value |-> value,   error |-> NoError]
Fail(error) == [ok |-> FALSE, value |-> NoValue, error |-> error]

RetryIdle ==
    /\ maxRetries = 0
    /\ i = 0
    /\ lastError = NoError
    /\ retryPc = "idle"
    /\ retryResult = Ok(NoValue)
    /\ invocations = 0
    /\ outcomes = << >>
    /\ sleeps = << >>

\* executeWithRetry is called: i = 0 and, when the loop is entered, queryFn is
\* invoked (src/index.ts:27-31); with no attempt left the undefined lastError
\* is thrown (line 48).
InitRetry ==
    /\ maxRetries \in 1..MaxRetriesBound
    /\ i = 0
    /\ lastError = NoError
    /\ retryPc = IF LoopContinues(0, maxRetries) THEN "call" ELSE "thrown"
    /\ retryResult = IF LoopContinues(0, maxRetries) THEN Ok(NoValue) ELSE Fail(NoError)
    /\ invocations = 0
    /\ outcomes = << >>
    /\ sleeps = << >>

\* queryFn() resolves: the result is returned (src/index.ts:31-32).
QueryFnResolves ==
    /\ retryPc = "call"
    /\ \E value \in ResultValues :
          /\ outcomes' = Append(outcomes, Ok(value))
          /\ retryResult' = Ok(value)
    /\ invocations' = invocations + 1
    /\ retryPc' = "returned"
    /\ UNCHANGED <<maxRetries, i, lastError, sleeps>>

\* queryFn() rejects: lastError is set; a transient error starts the backoff
\* timer, any other error is rethrown (src/index.ts:33-45).
QueryFnRejects ==
    /\ retryPc = "call"
    /\ \E error \in RetryErrors :
          /\ outcomes' = Append(outcomes, Fail(error))
          /\ lastError' = error
          /\ IF IsTransient(error)
             THEN /\ retryPc' = "sleep"
                  /\ sleeps' = Append(sleeps, BackoffDelay(i))
                  /\ UNCHANGED retryResult
             ELSE /\ retryPc' = "thrown"
                  /\ retryResult' = Fail(error)
                  /\ UNCHANGED sleeps
    /\ invocations' = invocations + 1
    /\ UNCHANGED <<maxRetries, i>>

\* The backoff timer fires: continue, i++, and either the next attempt or,
\* the loop being over, throw lastError (src/index.ts:39-40, 29, 48).
BackoffElapses ==
    /\ retryPc = "sleep"
    /\ i' = i + 1
    /\ IF LoopContinues(i + 1, maxRetries)
       THEN /\ retryPc' = "call"
            /\ UNCHANGED retryResult
       ELSE /\ retryPc' = "thrown"
            /\ retryResult' = Fail(lastError)
    /\ UNCHANGED <<maxRetries, lastError, invocations, outcomes, sleeps>>

----------------------------------------------------------------------------
(* runInBatches (src/index.ts:289-319).  A task is named by its id; the    *)
(* promise task() returns is named by the same id.                         *)

MaxTasks == 5
MaxLimit == 3

Settled == {"fulfilled", "rejected"}

\* Array.prototype.indexOf: the 0-based position of the first match, or -1.
IndexOf(arr, x) ==
    IF \E k \in 1..Len(arr) : arr[k] = x
    THEN (CHOOSE k \in 1..Len(arr) : arr[k] = x /\ \A m \in 1..(k - 1) : arr[m] # x) - 1
    ELSE -1

\* A mutant of SpliceOne: nothing is taken out of the array.
SpliceOneKeepsAll(arr, start) == arr

\* arr.splice(start, 1): a negative start counts from the end of the array.
SpliceOne(arr, start) ==
    LET at == IF start < 0
              THEN (IF Len(arr) + start < 0 THEN 0 ELSE Len(arr) + start)
              ELSE (IF start > Len(arr) THEN Len(arr) ELSE start)
    IN  SubSeq(arr, 1, at) \o SubSeq(arr, at + 2, Len(arr))

\* A mutant of InitialBatchSize: the loop forgets the limit.
InitialBatchSizeNoLimit(n, lim) == n

\* src/index.ts:314: for (let i = 0; i < limit && i < tasks.length; i++)
InitialBatchSize(n, lim) == IF lim < n THEN (IF lim < 0 THEN 0 ELSE lim) ELSE n

\* A mutant of AwaitThrows: the await is not wrapped in try/catch.
AwaitThrowsUncaught(state) == state = "rejected"

\* src/index.ts:303-307: try { await promise } catch (e) {}: a rejection is swallowed.
AwaitThrows(state) == FALSE

BatchIdle ==
    /\ tasks = << >>
    /\ limit = 0
    /\ index = 0
    /\ active = << >>
    /\ taskState = << >>
    /\ started = << >>
    /\ awaited = {}
    /\ chainsTotal = 0
    /\ chainsReturned = 0
    /\ batchPc = "idle"

\* runInBatches(tasks, limit) is about to be called with any list of at most
\* MaxTasks tasks and any limit of 1..MaxLimit.
InitBatch ==
    /\ \E n \in 0..MaxTasks :
          /\ tasks = [k \in 1..n |-> k]
          /\ taskState = [t \in 1..n |-> "unstarted"]
          /\ started = [t \in 1..n |-> 0]
    /\ limit \in 1..MaxLimit
    /\ index = 0
    /\ active = << >>
    /\ awaited = {}
    /\ chainsTotal = 0
    /\ chainsReturned = 0
    /\ batchPc = "ready"

\* The call runInBatches(ts, lim) itself (src/index.ts:290-292, 313-318): the
\* initial loop calls runNext() InitialBatchSize times, and each call takes the
\* next task, calls it, pushes its promise and suspends on it (lines 294-304);
\* then runInBatches suspends on Promise.all(initialBatch).
RunInBatchesCall(ts, lim) ==
    LET m == InitialBatchSize(Len(ts), lim)
        first == {ts[k] : k \in 1..m}
    IN  /\ tasks' = ts
        /\ limit' = lim
        /\ index' = m
        /\ active' = SubSeq(ts, 1, m)
        /\ taskState' = [t \in DOMAIN taskState |->
                             IF t \in first THEN "pending" ELSE "unstarted"]
        /\ started' = [t \in DOMAIN started |-> IF t \in first THEN 1 ELSE 0]
        /\ awaited' = first
        /\ chainsTotal' = m
        /\ chainsReturned' = 0
        /\ batchPc' = "running"

CallRunInBatches ==
    /\ batchPc = "ready"
    /\ RunInBatchesCall(tasks, limit)

\* The promise of a started task settles.
TaskSettles(t, how) ==
    /\ t \in DOMAIN taskState
    /\ taskState[t] = "pending"
    /\ taskState' = [taskState EXCEPT ![t] = how]
    /\ UNCHANGED <<tasks, limit, index, active, started, awaited, chainsTotal,
                   chainsReturned, batchPc>>

\* The runNext frame suspended on task t resumes (src/index.ts:303-310): the
\* promise leaves active, and runNext() is called again: it returns when the
\* cursor is at the end (lines 294-296), else it starts the next task.
RunNextResumes(t) ==
    /\ t \in awaited
    /\ taskState[t] \in Settled
    /\ IF AwaitThrows(taskState[t])
       THEN \* the frame's promise rejects, and Promise.all with it
            /\ awaited' = awaited \ {t}
            /\ batchPc' = IF batchPc = "running" THEN "rejected" ELSE batchPc
            /\ UNCHANGED <<index, active, taskState, started, chainsReturned>>
       ELSE LET spliced == SpliceOne(active, IndexOf(active, t)) IN
            IF index >= Len(tasks)
            THEN /\ active' = spliced
                 /\ awaited' = awaited \ {t}
                 /\ chainsReturned' = chainsReturned + 1
                 /\ UNCHANGED <<index, taskState, started, batchPc>>
            ELSE LET task == tasks[index + 1] IN
                 /\ index' = index + 1
                 /\ active' = Append(spliced, task)
                 /\ taskState' = [taskState EXCEPT ![task] = "pending"]
                 /\ started' = [started EXCEPT ![task] = @ + 1]
                 /\ awaited' = (awaited \ {t}) \cup {task}
                 /\ UNCHANGED <<chainsReturned, batchPc>>
    /\ UNCHANGED <<tasks, limit, chainsTotal>>

\* Promise.all(initialBatch) resolves and runInBatches returns (line 318).
AllChainsReturned ==
    /\ batchPc = "running"
    /\ chainsReturned = chainsTotal

RunInBatchesResolves ==
    /\ AllChainsReturned
    /\ batchPc' = "resolved"
    /\ UNCHANGED <<tasks, limit, index, active, taskState, started, awaited,
                   chainsTotal, chainsReturned>>

----------------------------------------------------------------------------
(* The job tables.  The variable jobs holds the rows of both tables, each  *)
(* row naming its table; of the ids of a specification the first ones are  *)
(* flashcard jobs and the others quiz jobs.  A job's createdAt is its id,  *)
(* jobs being submitted in id order.                                       *)

NumFlashcardJobs == 1
NumQuizJobs == 1
MaxCards == 2
MaxTicks == 1

FLASHCARD_CONCURRENCY_LIMIT == 3
QUIZ_CONCURRENCY_LIMIT == 3
MinContentLength == 50

Jobs == DOMAIN jobs
FlashcardJobs == {j \in Jobs : jobs[j].table = "flashcard"}
QuizJobs == {j \in Jobs : jobs[j].table = "quiz"}
Kinds == {"flashcard", "quiz"}
KindOf(j) == jobs[j].table
Table(kind) == IF kind = "flashcard" THEN FlashcardJobs ELSE QuizJobs
\* A mutant of ConcurrencyLimit: the limit is the size of a fetched batch.
ConcurrencyLimitIsBatchSize(kind) ==
    IF kind = "flashcard" THEN FLASHCARD_CONCURRENCY_LIMIT * 2 ELSE QUIZ_CONCURRENCY_LIMIT * 2

ConcurrencyLimit(kind) ==
    IF kind = "flashcard" THEN FLASHCARD_CONCURRENCY_LIMIT ELSE QUIZ_CONCURRENCY_LIMIT

\* A nullable text column: NULL, or a message (a sequence of words).
Null == [isNull |-> TRUE, words |-> << >>]
Text(words) == [isNull |-> FALSE, words |-> words]
\* A reference to an artifact row.  The ids the database gives are unique; the
\* n-th artifact created for job j is named <<j, n>>.
NullRef == << >>
NewArtifactId(j) == <<j, Cardinality({a \in artifacts : a.job = j}) + 1>>

\* A fileUrl: the string, whether new URL() parses it, and the protocol of the
\* parsed URL.  The empty string stands for a null fileUrl.
Url(raw, wellFormed, protocol) ==
    [raw |-> raw, wellFormed |-> wellFormed, protocol |-> protocol]
NullUrl   == Url("", FALSE, "")
HttpsUrl  == Url("https://x/y.pdf", TRUE, "https:")
NotAUrl   == Url("not-a-url", FALSE, "")
HttpUrl   == Url("http://x/y.pdf", TRUE, "http:")
R2Url     == Url("r2://bucket/key", TRUE, "r2:")
FtpUrl    == Url("ftp://x", TRUE, "ftp:")

\* A text: its name and its length; length 0 stands for a null or empty text.
Content(name, len) == [name |-> name, len |-> len]
NoContent    == Content("", 0)
ShortContent == Content("inline30", 30)
LongContent  == Content("inline200", 200)

\* What a job is submitted with: a fileUrl or a text.
JobInputs == {[fileUrl |-> HttpsUrl, text |-> NoContent],
              [fileUrl |-> NotAUrl,  text |-> NoContent],
              [fileUrl |-> NullUrl,  text |-> LongContent],
              [fileUrl |-> NullUrl,  text |-> ShortContent]}

\* A job row: status, resultRef (flashcardSetId / quizId), error, createdAt.
\* The input columns fileUrl and text never change and a run reads them from
\* its job object, after the claim (lines 69-87): the model draws them when
\* the claim call ends and keeps them in the run's state.
AbsentRow(table) == [table |-> table, status |-> "ABSENT", resultRef |-> NullRef,
                     error |-> Null, createdAt |-> 0]

\* A row as the application inserts it: PENDING, with no result and no error.
SubmittedRow(table, createdAt) ==
    [AbsentRow(table) EXCEPT !.status = "PENDING", !.createdAt = createdAt]

\* Tables with room for f flashcard jobs and q quiz jobs, and no row yet.
EmptyTables(f, q) ==
    [j \in 1..(f + q) |-> AbsentRow(IF j <= f THEN "flashcard" ELSE "quiz")]

\* A mutant of IsPending: the fetch query has no WHERE clause.
IsPendingAnyStatus(row) == row.status # "ABSENT"

\* WHERE status = 'PENDING' (src/index.ts:328, 369)
IsPending(row) == row.status = "PENDING"

\* A mutant of SetProcessing: the claim write changes nothing.
SetProcessingNoWrite(row) == row

\* SET status = 'PROCESSING' (lines 58-61, 166-169)
SetProcessing(row) == [row EXCEPT !.status = "PROCESSING"]

\* A mutant of SetDone: the DONE write leaves the result column alone.
SetDoneNoRef(row, ref) == [row EXCEPT !.status = "DONE"]

\* SET status = 'DONE', "flashcardSetId" / "quizId" = ... (lines 125-131, 250-256)
SetDone(row, ref) == [row EXCEPT !.status = "DONE", !.resultRef = ref]

\* SET status = 'FAILED', error = ... (lines 142-149, 267-274)
SetFailed(row, message) == [row EXCEPT !.status = "FAILED", !.error = message]

\* The outcomes of one persistence call: it resolves, or it rejects with a
\* pool-exhaustion error, or with another error.
DbOutcomes == {Ok("rows"), Fail(PoolMessageError), Fail(ConstraintError)}

\* What extractTextFromPDF resolves with or rejects with.
AbortError == Err("none", "AbortError", TRUE, <<"The", "operation", "was", "aborted">>)
ExtractedContents == {Content("pdf20", 20), Content("pdf50", 50)}
ExtractErrors == {AbortError}

\* What the generation call rejects with.
EmptyMessageError == Err("none", "Error", TRUE, << >>)
GenerateErrors == {EmptyMessageError}

\* A mutant of isValidUrl: the protocol is not looked at.
isValidUrlAnyProtocol(url) == url.wellFormed

\* src/index.ts:12-19
isValidUrl(url) ==
    IF ~url.wellFormed THEN FALSE
    ELSE url.protocol = "http:" \/ url.protocol = "https:" \/ url.protocol = "r2:"

\* A mutant of ErrorText: the message is written as it is, without the default.
ErrorTextNoDefault(error) == IF error.hasMessage THEN error.message ELSE << >>

\* error.message || 'Unknown error' (src/index.ts:147, 272)
ErrorText(error) ==
    IF ~error.hasMessage \/ error.message = << >>
    THEN <<"Unknown", "error">>
    ELSE error.message

InvalidUrlError(url) ==
    Err("none", "Error", TRUE,
        <<"Invalid", "file", "URL:", url.raw, "Must", "be", "http,", "https,", "or", "r2", "protocol.">>)
TimeoutError ==
    Err("none", "Error", TRUE, <<"File", "download", "timeout", "(30", "seconds)">>)
TooShortError(kind) ==
    Err("none", "Error", TRUE,
        <<"Content", "too", "short", "to", "generate",
          IF kind = "flashcard" THEN "flashcards" ELSE "quiz",
          "(minimum", "50", "characters)">>)

\* A mutant of RetryOutcome: every error is thrown at once.
RetryOutcomeThrowsAtOnce(attempt, outcome) == IF outcome.ok THEN "ok" ELSE "throw"

\* One attempt of an executeWithRetry call has the given outcome at loop index
\* attempt: the call returns ("ok"), backs off and tries again ("retry"), or
\* throws the attempt's error ("throw") (src/index.ts:29-48).
RetryOutcome(attempt, outcome) ==
    IF outcome.ok THEN "ok"
    ELSE IF IsTransient(outcome.error) /\ LoopContinues(attempt + 1, DefaultMaxRetries)
         THEN "retry"
         ELSE "throw"

\* The rows of a table with status PENDING, ORDER BY "createdAt" ASC.
RECURSIVE OrderByCreatedAt(_)
OrderByCreatedAt(S) ==
    IF S = {} THEN << >>
    ELSE LET first == CHOOSE j \in S : \A k \in S : jobs[j].createdAt <= jobs[k].createdAt
         IN  <<first>> \o OrderByCreatedAt(S \ {first})

Take(seq, n) == SubSeq(seq, 1, IF Len(seq) < n THEN Len(seq) ELSE n)

\* A mutant of BatchSize: LIMIT is the concurrency limit.
BatchSizeIsLimit(kind) == ConcurrencyLimit(kind)

\* src/index.ts:323-344, 364-386: WHERE status = 'PENDING' ORDER BY "createdAt" ASC LIMIT BATCH_SIZE
BatchSize(kind) == ConcurrencyLimit(kind) * 2
\* A mutant of SelectPending: the fetch also takes the rows a run has claimed.
SelectPendingOrProcessing(kind) ==
    Take(OrderByCreatedAt({j \in Table(kind) : jobs[j].status \in {"PENDING", "PROCESSING"}}),
         BatchSize(kind))

SelectPending(kind) ==
    Take(OrderByCreatedAt({j \in Table(kind) : IsPending(jobs[j])}), BatchSize(kind))

----------------------------------------------------------------------------
(* processFlashcardJob / processQuizJob (src/index.ts:51-157, 159-282).    *)
(* A run is at one of its awaits: "claim", "extract", "generate",          *)
(* "create", "markDone", "markFailed"; or it has "returned".               *)

NoInput == [fileUrl |-> NullUrl, text |-> NoContent]

IdleProc == [pc |-> "idle", attempt |-> 0, failed |-> FALSE, caught |-> Null,
             failedWritten |-> FALSE, claimed |-> FALSE, job |-> NoInput,
             text |-> NoContent, items |-> 0, artifact |-> NullRef,
             extractCalls |-> 0, generateCalls |-> 0, createCalls |-> 0]

\* The processor is called: it issues the claim write (lines 54-64).
BeginProc == [IdleProc EXCEPT !.pc = "claim"]

\* The catch block (lines 137-152): the FAILED write is issued with the
\* error's message; the locals of the try block are out of scope.
Catch(p, error) ==
    [p EXCEPT !.pc = "markFailed", !.attempt = 0, !.failed = TRUE,
              !.caught = Text(ErrorText(error)),
              !.text = NoContent, !.items = 0, !.artifact = NullRef]

\* A mutant of CheckLengthThenGenerate: only an empty text is refused.
CheckLengthThenGenerateNoMinimum(p, kind, content) ==
    IF content.len = 0
    THEN Catch(p, TooShortError(kind))
    ELSE [p EXCEPT !.pc = "generate", !.text = content, !.generateCalls = @ + 1]

\* Lines 91-97: the length check, then the generation call.
CheckLengthThenGenerate(p, kind, content) ==
    IF content.len = 0 \/ content.len < MinContentLength
    THEN Catch(p, TooShortError(kind))
    ELSE [p EXCEPT !.pc = "generate", !.text = content, !.generateCalls = @ + 1]

\* A mutant of AcquireText: the text column of the job is not read.
AcquireTextFileOnly(p, j) ==
    IF p.job.fileUrl.raw # ""
    THEN IF ~isValidUrl(p.job.fileUrl)
         THEN Catch(p, InvalidUrlError(p.job.fileUrl))
         ELSE [p EXCEPT !.pc = "extract", !.extractCalls = @ + 1]
    ELSE CheckLengthThenGenerate(p, KindOf(j), NoContent)

\* Lines 66-89: after the claim, the text is taken from the file or from the row.
AcquireText(p, j) ==
    IF p.job.fileUrl.raw # ""
    THEN IF ~isValidUrl(p.job.fileUrl)
         THEN Catch(p, InvalidUrlError(p.job.fileUrl))
         ELSE [p EXCEPT !.pc = "extract", !.extractCalls = @ + 1]
    ELSE CheckLengthThenGenerate(p, KindOf(j),
            IF p.job.text.len # 0 THEN p.job.text ELSE NoContent)

\* A mutant of ClaimThrows: a failed claim write is ignored and the work goes on.
ClaimThrowsIgnored(p, j, error) == AcquireText(p, j)

\* A mutant of ChildOrders: order: index + 1.
ChildOrdersOneBased(n) == [k \in 1..n |-> k]

\* cards.map((card, index) => ({ ..., order: index })) (lines 109-113, 230-238)
ChildOrders(n) == [k \in 1..n |-> k - 1]

\* Lines 56-64, 137: the claim's executeWithRetry throws, into the catch block.
ClaimThrows(p, j, error) == Catch(p, error)

\* The run's promise resolves; of the run are kept its job object and what
\* happened: the claim succeeded, the catch block ran, the FAILED write succeeded.
Returns(p) == [IdleProc EXCEPT !.pc = "returned", !.failed = p.failed,
                                !.failedWritten = p.failedWritten,
                                !.claimed = p.claimed, !.job = p.job]

Running(j) == mainPc # "exited" /\ taskState[j] = "pending"

SetProc(j, p) == proc' = [proc EXCEPT ![j] = p]

JobFrame == UNCHANGED <<tasks, limit, index, active, started, awaited, chainsTotal,
                        chainsReturned, batchPc, mainPc, probeAttempt, exitCode,
                        timerInstalled, ticks, isPolling, shutdownRequested, shutdownPc,
                        activePollJobs, pollPc, pollKind, fetchAttempt,
                        dbCleanup, released, shutdownCause, signalledAt, peer>>

\* The claim write UPDATE ... SET status = 'PROCESSING' WHERE id = job.id
\* responds; input is what the job object holds in fileUrl and text.
ClaimResponds(j, o, input) ==
    /\ Running(j) /\ proc[j].pc = "claim"
    /\ LET how == RetryOutcome(proc[j].attempt, o)
           p   == [proc[j] EXCEPT !.job = input]
       IN
       /\ jobs' = IF how = "ok" THEN [jobs EXCEPT ![j] = SetProcessing(@)] ELSE jobs
       /\ SetProc(j, CASE how = "ok"    -> AcquireText([p EXCEPT !.claimed = TRUE], j)
                       [] how = "retry" -> [proc[j] EXCEPT !.attempt = @ + 1]
                       [] OTHER         -> ClaimThrows(p, j, o.error))
    /\ UNCHANGED <<taskState, artifacts>>
    /\ JobFrame

\* extractTextFromPDF resolves (lines 76-77, 91-97).
ExtractResolves(j, content) ==
    /\ Running(j) /\ proc[j].pc = "extract"
    /\ SetProc(j, CheckLengthThenGenerate(proc[j], KindOf(j), content))
    /\ UNCHANGED <<jobs, taskState, artifacts>>
    /\ JobFrame

\* extractTextFromPDF rejects (lines 79-84).
ExtractRejects(j, error) ==
    /\ Running(j) /\ proc[j].pc = "extract"
    /\ SetProc(j, Catch(proc[j], IF error.name = "AbortError" THEN TimeoutError ELSE error))
    /\ UNCHANGED <<jobs, taskState, artifacts>>
    /\ JobFrame

\* The generation call resolves with n cards / questions; the create call is
\* issued (lines 97-120, 212-245).
GenerateResolves(j, n) ==
    /\ Running(j) /\ proc[j].pc = "generate"
    /\ SetProc(j, [proc[j] EXCEPT !.pc = "create", !.attempt = 0, !.items = n,
                                  !.createCalls = @ + 1])
    /\ UNCHANGED <<jobs, taskState, artifacts>>
    /\ JobFrame

\* The generation call rejects.
GenerateRejects(j, error) ==
    /\ Running(j) /\ proc[j].pc = "generate"
    /\ SetProc(j, Catch(proc[j], error))
    /\ UNCHANGED <<jobs, taskState, artifacts>>
    /\ JobFrame

\* A mutant of ArtifactsAfterCreate: an attempt that is retried has written its rows.
ArtifactsAfterCreateEveryAttempt(j, how) ==
    IF how \in {"ok", "retry"}
    THEN artifacts \cup {[id |-> NewArtifactId(j), job |-> j,
                           orders |-> ChildOrders(proc[j].items)]}
    ELSE artifacts

\* The artifact rows after an attempt of the create call: the set / quiz and
\* its children are written by the attempt that succeeds (lines 101-117, 222-242).
ArtifactsAfterCreate(j, how) ==
    IF how = "ok"
    THEN artifacts \cup {[id |-> NewArtifactId(j), job |-> j,
                           orders |-> ChildOrders(proc[j].items)]}
    ELSE artifacts

\* prisma.flashcardSet.create / prisma.quiz.create responds (lines 101-120, 222-245).
CreateResponds(j, o) ==
    /\ Running(j) /\ proc[j].pc = "create"
    /\ LET how == RetryOutcome(proc[j].attempt, o) IN
       /\ artifacts' = ArtifactsAfterCreate(j, how)
       /\ SetProc(j, CASE how = "ok"    -> [proc[j] EXCEPT !.pc = "markDone", !.attempt = 0,
                                                           !.artifact = NewArtifactId(j)]
                       [] how = "retry" -> [proc[j] EXCEPT !.attempt = @ + 1,
                                                           !.createCalls = @ + 1]
                       [] OTHER         -> Catch(proc[j], o.error))
    /\ UNCHANGED <<jobs, taskState>>
    /\ JobFrame

\* UPDATE ... SET status = 'DONE', "flashcardSetId" = ... responds (lines 123-135, 248-260).
MarkDoneResponds(j, o) ==
    /\ Running(j) /\ proc[j].pc = "markDone"
    /\ LET how == RetryOutcome(proc[j].attempt, o) IN
       /\ jobs' = IF how = "ok"
                  THEN [jobs EXCEPT ![j] = SetDone(@, proc[j].artifact)]
                  ELSE jobs
       /\ SetProc(j, CASE how = "ok"    -> Returns(proc[j])
                       [] how = "retry" -> [proc[j] EXCEPT !.attempt = @ + 1]
                       [] OTHER         -> Catch(proc[j], o.error))
       /\ taskState' = IF how = "ok" THEN [taskState EXCEPT ![j] = "fulfilled"] ELSE taskState
    /\ UNCHANGED artifacts
    /\ JobFrame

\* A mutant of FailedWriteSettles: a FAILED write that throws is thrown on.
FailedWriteSettlesRethrows(how) == IF how = "throw" THEN "rejected" ELSE "fulfilled"

\* How the processor's promise settles after the FAILED write: the inner
\* catch logs the error of a write that threw, and the function returns
\* (lines 153-156, 278-281).
FailedWriteSettles(how) == "fulfilled"

\* UPDATE ... SET status = 'FAILED', error = ... responds; when it throws, the
\* inner catch logs and the run returns all the same (lines 140-156, 265-281).
MarkFailedResponds(j, o) ==
    /\ Running(j) /\ proc[j].pc = "markFailed"
    /\ LET how == RetryOutcome(proc[j].attempt, o) IN
       /\ jobs' = IF how = "ok"
                  THEN [jobs EXCEPT ![j] = SetFailed(@, proc[j].caught)]
                  ELSE jobs
       /\ SetProc(j, IF how = "retry" THEN [proc[j] EXCEPT !.attempt = @ + 1]
                     ELSE Returns([proc[j] EXCEPT !.failedWritten = (how = "ok")]))
       /\ taskState' = IF how = "retry" THEN taskState
                       ELSE [taskState EXCEPT ![j] = FailedWriteSettles(how)]
    /\ UNCHANGED artifacts
    /\ JobFrame

----------------------------------------------------------------------------
(* The poll scheduler: pollFlashcardJobs, pollQuizJobs, pollJobs,          *)
(* safePollJobs, main and shutdown (src/index.ts:321-506).                 *)

Alive == mainPc # "exited"

\* The processors the batch runner has just called start their claim write.
StartCalledProcessors ==
    proc' = [j \in Jobs |->
                IF taskState[j] # "pending" /\ taskState'[j] = "pending"
                THEN BeginProc ELSE proc[j]]

\* A mutant of CycleEnds: safePollJobs has no finally block.
CycleEndsKeepsFlag ==
    /\ pollPc' = "idle"
    /\ activePollJobs' = activePollJobs - 1
    /\ isPolling' = isPolling
    /\ mainPc' = IF mainPc = "initialPoll" THEN "running" ELSE mainPc
    /\ UNCHANGED <<pollKind, fetchAttempt>>

\* pollJobs returns and safePollJobs' finally block runs (lines 438-440); the
\* initial poll of main returns into main, which registers the signal
\* handlers (lines 466-505).
CycleEnds ==
    /\ pollPc' = "idle"
    /\ activePollJobs' = activePollJobs - 1
    /\ isPolling' = FALSE
    /\ mainPc' = IF mainPc = "initialPoll" THEN "running" ELSE mainPc
    /\ UNCHANGED <<pollKind, fetchAttempt>>

\* pollFlashcardJobs / pollQuizJobs has returned: pollJobs goes on with the
\* quiz jobs, or returns (lines 414-422).
AfterPollOf(kind) ==
    IF kind = "flashcard"
    THEN /\ pollPc' = "fetch"
         /\ pollKind' = "quiz"
         /\ fetchAttempt' = 0
         /\ UNCHANGED <<activePollJobs, isPolling, mainPc>>
    ELSE CycleEnds

\* A mutant of SafePollJobsEnters: the isPolling flag is not looked at.
SafePollJobsEntersWhilePolling == ~shutdownRequested

\* Lines 429-431: if (isPolling || shutdownRequested) return
SafePollJobsEnters == ~(isPolling \/ shutdownRequested)

\* safePollJobs past its guard: isPolling = true and pollJobs() is called
\* (lines 433-435), which returns at once when shutdown was requested
\* (lines 405-407) and else issues the flashcard fetch (lines 414, 321-344).
SafePollJobsRuns ==
    IF shutdownRequested
    THEN /\ isPolling' = FALSE
         /\ UNCHANGED <<activePollJobs, pollPc, pollKind, fetchAttempt>>
    ELSE /\ isPolling' = TRUE
         /\ activePollJobs' = activePollJobs + 1
         /\ pollPc' = "fetch"
         /\ pollKind' = "flashcard"
         /\ fetchAttempt' = 0

\* A mutant of ProbeThrows: the catch block logs and main goes on.
ProbeThrowsLogged ==
    /\ timerInstalled' = TRUE
    /\ mainPc' = "initialPoll"
    /\ SafePollJobsRuns
    /\ UNCHANGED <<probeAttempt, exitCode>>

\* The executeWithRetry of the probe throws: the catch block logs and calls
\* process.exit(1) (lines 455-458).
ProbeThrows ==
    /\ mainPc' = "exited"
    /\ exitCode' = 1
    /\ UNCHANGED <<probeAttempt, timerInstalled, isPolling, activePollJobs,
                   pollPc, pollKind, fetchAttempt>>

\* The connectivity probe SELECT 1 responds (lines 447-466): on success the
\* interval timer is installed and the initial poll starts; when the
\* executeWithRetry throws, process.exit(1).  lastError is the error the
\* probe's executeWithRetry holds (lines 23, 31).
ProbeResponds(o) ==
    /\ UNCHANGED <<handlerVars, peer>>
    /\ mainPc = "probe"
    /\ LET how == RetryOutcome(probeAttempt, o) IN
       CASE how = "ok" ->
              /\ timerInstalled' = TRUE
              /\ mainPc' = "initialPoll"
              /\ IF SafePollJobsEnters
                 THEN SafePollJobsRuns
                 ELSE UNCHANGED <<isPolling, activePollJobs, pollPc, pollKind, fetchAttempt>>
              /\ UNCHANGED <<probeAttempt, exitCode>>
         [] how = "retry" ->
              /\ probeAttempt' = probeAttempt + 1
              /\ UNCHANGED <<mainPc, exitCode, timerInstalled, isPolling, activePollJobs,
                             pollPc, pollKind, fetchAttempt>>
         [] OTHER -> ProbeThrows
    /\ lastError' = IF o.ok THEN NoError ELSE o.error
    /\ UNCHANGED <<maxRetries, i, retryPc, retryResult, invocations, outcomes, sleeps>>
    /\ UNCHANGED <<ticks, shutdownRequested, shutdownPc, jobs, proc, artifacts>>
    /\ UNCHANGED batchVars

\* The interval timer fires and calls safePollJobs (line 463, 428-441).  The
\* count of ticks stops at MaxTicks.
TimerFires ==
    /\ UNCHANGED <<handlerVars, peer>>
    /\ Alive /\ timerInstalled
    /\ ticks' = IF ticks < MaxTicks THEN ticks + 1 ELSE ticks
    /\ IF SafePollJobsEnters
       THEN SafePollJobsRuns
       ELSE UNCHANGED <<isPolling, activePollJobs, pollPc, pollKind, fetchAttempt>>
    /\ UNCHANGED <<mainPc, probeAttempt, exitCode, timerInstalled, shutdownRequested,
                   shutdownPc, jobs, proc, artifacts>>
    /\ UNCHANGED batchVars

\* One of the first MaxTicks firings of the timer.
Tick == ticks < MaxTicks /\ TimerFires

\* The fetch query of pollFlashcardJobs / pollQuizJobs responds (lines
\* 326-359, 367-401): with no pending job, or when the executeWithRetry
\* throws, the function returns false; else runInBatches is called with one
\* task per fetched job.
FetchResponds(o) ==
    /\ UNCHANGED <<handlerVars, peer>>
    /\ Alive /\ pollPc = "fetch"
    /\ LET how == RetryOutcome(fetchAttempt, o)
           pendingJobs == SelectPending(pollKind)
       IN  CASE how = "ok" /\ Len(pendingJobs) > 0 ->
                  /\ RunInBatchesCall(pendingJobs, ConcurrencyLimit(pollKind))
                  /\ StartCalledProcessors
                  /\ pollPc' = "batch"
                  /\ UNCHANGED <<pollKind, fetchAttempt, activePollJobs, isPolling, mainPc>>
             [] how = "retry" ->
                  /\ fetchAttempt' = fetchAttempt + 1
                  /\ UNCHANGED <<pollPc, pollKind, activePollJobs, isPolling, mainPc, proc>>
                  /\ UNCHANGED batchVars
             [] OTHER ->
                  /\ AfterPollOf(pollKind)
                  /\ UNCHANGED proc
                  /\ UNCHANGED batchVars
    /\ UNCHANGED <<probeAttempt, exitCode, timerInstalled, ticks, shutdownRequested,
                   shutdownPc, jobs, artifacts>>

\* A runNext frame of the running batch resumes and may call the next processor.
WorkerRunNextResumes(j) ==
    /\ UNCHANGED <<handlerVars, peer>>
    /\ Alive /\ pollPc = "batch"
    /\ RunNextResumes(j)
    /\ StartCalledProcessors
    /\ UNCHANGED <<mainPc, probeAttempt, exitCode, timerInstalled, ticks, isPolling,
                   shutdownRequested, shutdownPc, activePollJobs, pollPc, pollKind,
                   fetchAttempt, jobs, artifacts>>

\* runInBatches resolves: pollFlashcardJobs / pollQuizJobs returns true
\* (lines 353-355, 395-397); the locals of the batch and of its processors
\* are gone.
BatchReturns ==
    /\ UNCHANGED <<handlerVars, peer>>
    /\ Alive /\ pollPc = "batch"
    /\ AllChainsReturned
    /\ batchPc' = "resolved"
    /\ tasks' = << >> /\ limit' = 0 /\ index' = 0 /\ active' = << >>
    /\ taskState' = [j \in Jobs |-> "unstarted"]
    /\ started' = [j \in Jobs |-> 0]
    /\ awaited' = {} /\ chainsTotal' = 0 /\ chainsReturned' = 0
    /\ proc' = [j \in Jobs |-> IdleProc]
    /\ AfterPollOf(pollKind)
    /\ UNCHANGED <<probeAttempt, exitCode, timerInstalled, ticks, shutdownRequested,
                   shutdownPc, jobs, artifacts>>

\* shutdown() past its guard (lines 470-484): the flag is set, the timer
\* is cleared, and the loop waits while isPolling; with isPolling false
\* prisma.$disconnect() is called at once.
ShutdownRuns(cause) ==
    /\ shutdownRequested' = TRUE
    /\ timerInstalled' = FALSE
    /\ shutdownPc' = IF isPolling THEN "draining" ELSE "disconnecting"
    /\ shutdownCause' = cause

\* The cleanup of the db module, where it is registered on the signal
\* (src/unnamed/part_000:25-35): prisma.$disconnect() and pool.end() are
\* called whatever the worker is doing.
CleanupRuns == dbCleanup

\* SIGTERM / SIGINT with the handlers of main registered (lines 469-494):
\* shutdown() runs, after the cleanup of the db module where that is
\* registered; with shutdownRequested set already, shutdown() returns at
\* once (line 470) and only the cleanup runs.
Signal ==
    /\ mainPc = "running"
    /\ IF ~shutdownRequested
       THEN /\ ShutdownRuns("signal")
            /\ released' = (released \/ CleanupRuns \/ ~isPolling)
       ELSE /\ CleanupRuns /\ ~released
            /\ released' = TRUE
            /\ UNCHANGED <<shutdownRequested, timerInstalled, shutdownPc, shutdownCause>>
    /\ signalledAt' = IF signalledAt = "none" THEN mainPc ELSE signalledAt
    /\ UNCHANGED <<mainPc, probeAttempt, exitCode, ticks, isPolling, activePollJobs,
                   pollPc, pollKind, fetchAttempt, jobs, proc, artifacts, dbCleanup, peer>>
    /\ UNCHANGED batchVars

\* The 100 ms wait of shutdown's loop ends with isPolling false:
\* prisma.$disconnect() is called (lines 478-484).
DrainWaitElapses ==
    /\ Alive /\ shutdownPc = "draining"
    /\ ~isPolling
    /\ shutdownPc' = "disconnecting"
    /\ released' = TRUE
    /\ UNCHANGED <<mainPc, probeAttempt, exitCode, timerInstalled, ticks, isPolling,
                   shutdownRequested, activePollJobs, pollPc, pollKind, fetchAttempt,
                   jobs, proc, artifacts, dbCleanup, shutdownCause, signalledAt, peer>>
    /\ UNCHANGED batchVars

\* prisma.$disconnect() settles either way: process.exit(0) (lines 483-490).
DisconnectSettles ==
    /\ UNCHANGED <<handlerVars, peer>>
    /\ Alive /\ shutdownPc = "disconnecting"
    /\ mainPc' = "exited"
    /\ exitCode' = 0
    /\ UNCHANGED <<probeAttempt, timerInstalled, ticks, isPolling, shutdownRequested,
                   shutdownPc, activePollJobs, pollPc, pollKind, fetchAttempt, jobs, proc,
                   artifacts>>
    /\ UNCHANGED batchVars

\* The signals the handlers are registered for: SIGINT and SIGTERM.
Signals == {2, 15}

\* The exit status of a process a signal has terminated.
KilledBy(sig) == 128 + sig

\* SIGTERM / SIGINT before main has registered its handlers, that is, during
\* the probe or the initial poll (lines 447-466 run before lines 493-494).
\* Where the db module has registered its cleanup, only that runs, and the
\* process goes on; where no handler is registered, the signal terminates
\* the process.
EarlySignal(sig) ==
    /\ mainPc \in {"probe", "initialPoll"}
    /\ signalledAt = "none"
    /\ signalledAt' = mainPc
    /\ IF CleanupRuns
       THEN /\ released' = TRUE
            /\ UNCHANGED <<mainPc, exitCode>>
       ELSE /\ mainPc' = "exited"
            /\ exitCode' = KilledBy(sig)
            /\ UNCHANGED released
    /\ UNCHANGED <<probeAttempt, timerInstalled, ticks, isPolling, shutdownRequested,
                   shutdownPc, activePollJobs, pollPc, pollKind, fetchAttempt, jobs, proc,
                   artifacts, dbCleanup, shutdownCause, peer>>
    /\ UNCHANGED batchVars

\* An uncaught exception or an unhandled rejection outside the processors,
\* with the handlers of main registered (lines 497-505): shutdown() is called.
Fault ==
    /\ mainPc = "running"
    /\ ~shutdownRequested
    /\ ShutdownRuns("fault")
    /\ released' = (released \/ ~isPolling)
    /\ UNCHANGED <<mainPc, probeAttempt, exitCode, ticks, isPolling, activePollJobs,
                   pollPc, pollKind, fetchAttempt, jobs, proc, artifacts, dbCleanup,
                   signalledAt, peer>>
    /\ UNCHANGED batchVars

\* An uncaught exception or an unhandled rejection before main has registered
\* its handlers: the process ends with code 1, by the default of the runtime
\* or through main().catch (lines 508-518).
EarlyFault ==
    /\ mainPc \in {"probe", "initialPoll"}
    /\ mainPc' = "exited"
    /\ exitCode' = 1
    /\ UNCHANGED <<probeAttempt, timerInstalled, ticks, isPolling, shutdownRequested,
                   shutdownPc, activePollJobs, pollPc, pollKind, fetchAttempt, jobs, proc,
                   artifacts>>
    /\ UNCHANGED <<handlerVars, peer>>
    /\ UNCHANGED batchVars

\* A job is submitted by the application: a PENDING row with no result and no
\* error.  The worker reads the set of rows of a table only in its fetch
\* query, and no other step of the worker depends on rows it has not fetched,
\* so a submission at any earlier time is modelled by the same submission made
\* while the fetch query that first sees it is in flight.
SubmitJob(j) ==
    /\ UNCHANGED <<handlerVars, peer>>
    /\ Alive /\ pollPc = "fetch" /\ pollKind = KindOf(j)
    /\ jobs[j].status = "ABSENT"
    /\ \A k \in Table(KindOf(j)) : k < j => jobs[k].status # "ABSENT"
    /\ jobs' = [jobs EXCEPT ![j] = SubmittedRow(KindOf(j), j)]
    /\ UNCHANGED <<mainPc, probeAttempt, exitCode, timerInstalled, ticks, isPolling,
                   shutdownRequested, shutdownPc, activePollJobs, pollPc, pollKind,
                   fetchAttempt, proc, artifacts>>
    /\ UNCHANGED batchVars

\* A second worker process, running the same program on the same tables.
\* Of its state the model keeps the poll it is in, the rows its fetch
\* returned, and per job where its processor is: at the claim write
\* ("claim"), past it ("working"), or returned.
IdlePeer == [pc |-> "idle", kind |-> "flashcard", tasks |-> << >>, index |-> 0,
             proc |-> [j \in Jobs |-> "idle"]]

\* The peer calls the next task of its batch (lines 297-306).
PeerStartsNext(q) ==
    IF q.index < Len(q.tasks)
    THEN [q EXCEPT !.index = @ + 1, !.proc[q.tasks[q.index + 1]] = "claim"]
    ELSE q

\* The peer's pollFlashcardJobs / pollQuizJobs issues its fetch query
\* (lines 326-343, 367-385).
PeerPolls(kind) ==
    /\ peer.pc = "idle"
    /\ peer' = [peer EXCEPT !.pc = "fetch", !.kind = kind]
    /\ UNCHANGED <<jobs, artifacts>>

\* The peer's fetch returns the rows that are PENDING now, and its
\* runInBatches starts the first processors (lines 346-353, 289-319).
PeerFetchResponds ==
    /\ peer.pc = "fetch"
    /\ LET pendingJobs == SelectPending(peer.kind)
           m == InitialBatchSize(Len(pendingJobs), ConcurrencyLimit(peer.kind))
       IN  peer' = IF Len(pendingJobs) = 0
                   THEN [peer EXCEPT !.pc = "idle"]
                   ELSE [peer EXCEPT !.pc = "batch", !.tasks = pendingJobs, !.index = m,
                                     !.proc = [j \in Jobs |->
                                                 IF \E k \in 1..m : pendingJobs[k] = j
                                                 THEN "claim" ELSE "idle"]]
    /\ UNCHANGED <<jobs, artifacts>>

\* The peer's claim write lands: UPDATE ... SET status = 'PROCESSING'
\* WHERE id = job.id, whatever the status of the row is (lines 56-64).
PeerClaimResponds(j) ==
    /\ peer.pc = "batch" /\ peer.proc[j] = "claim"
    /\ jobs' = [jobs EXCEPT ![j] = SetProcessing(@)]
    /\ peer' = [peer EXCEPT !.proc[j] = "working"]
    /\ UNCHANGED artifacts

\* The peer's processor ends: with n items created and the DONE write, or
\* with the FAILED write (lines 66-152); its runNext goes on.
PeerProcessorReturns(j, succeeds, n) ==
    /\ peer.pc = "batch" /\ peer.proc[j] = "working"
    /\ IF succeeds
       THEN /\ artifacts' = artifacts \cup {[id |-> NewArtifactId(j), job |-> j,
                                              orders |-> ChildOrders(n)]}
            /\ jobs' = [jobs EXCEPT ![j] = SetDone(@, NewArtifactId(j))]
       ELSE /\ jobs' = [jobs EXCEPT ![j] = SetFailed(@, Text(ErrorText(EmptyMessageError)))]
            /\ UNCHANGED artifacts
    /\ peer' = PeerStartsNext([peer EXCEPT !.proc[j] = "returned"])

\* The peer's runInBatches resolves (lines 308-318).
PeerBatchReturns ==
    /\ peer.pc = "batch"
    /\ peer.index = Len(peer.tasks)
    /\ \A k \in 1..Len(peer.tasks) : peer.proc[peer.tasks[k]] = "returned"
    /\ peer' = [IdlePeer EXCEPT !.kind = peer.kind]
    /\ UNCHANGED <<jobs, artifacts>>

\* What a step of the peer leaves alone: this worker's own state.
PeerFrame ==
    /\ UNCHANGED <<mainPc, probeAttempt, exitCode, timerInstalled, ticks, isPolling,
                   shutdownRequested, shutdownPc, activePollJobs, pollPc, pollKind,
                   fetchAttempt, proc>>
    /\ UNCHANGED handlerVars
    /\ UNCHANGED batchVars
    /\ UNCHANGED retryVars

\* The given job tables and no poll cycle, no batch, no run.
InitTablesOf(rows) ==
    /\ jobs = rows
    /\ probeAttempt = 0
    /\ exitCode = -1
    /\ timerInstalled = FALSE
    /\ ticks = 0
    /\ isPolling = FALSE
    /\ shutdownRequested = FALSE
    /\ shutdownPc = "none"
    /\ activePollJobs = 0
    /\ pollPc = "idle"
    /\ pollKind = "flashcard"
    /\ fetchAttempt = 0
    /\ proc = [j \in Jobs |-> IdleProc]
    /\ artifacts = {}
    /\ released = FALSE
    /\ shutdownCause = "none"
    /\ signalledAt = "none"
    /\ peer = IdlePeer
    /\ tasks = << >>
    /\ limit = 0
    /\ index = 0
    /\ active = << >>
    /\ taskState = [j \in Jobs |-> "unstarted"]
    /\ started = [j \in Jobs |-> 0]
    /\ awaited = {}
    /\ chainsTotal = 0
    /\ chainsReturned = 0
    /\ batchPc = "idle"

\* The db module of src/dist/src/db.js registers no handler.
InitTables ==
    /\ InitTablesOf(EmptyTables(NumFlashcardJobs, NumQuizJobs))
    /\ dbCleanup = FALSE

\* The worker process starts: main() has issued the connectivity probe.
InitWorker == mainPc = "probe" /\ InitTables

WorkerIdle ==
    /\ mainPc = "exited"
    /\ probeAttempt = 0
    /\ exitCode = -1
    /\ timerInstalled = FALSE
    /\ ticks = 0
    /\ isPolling = FALSE
    /\ shutdownRequested = FALSE
    /\ shutdownPc = "none"
    /\ activePollJobs = 0
    /\ pollPc = "idle"
    /\ pollKind = "flashcard"
    /\ fetchAttempt = 0
    /\ jobs = << >>
    /\ proc = << >>
    /\ artifacts = {}
    /\ dbCleanup = FALSE
    /\ released = FALSE
    /\ shutdownCause = "none"
    /\ signalledAt = "none"
    /\ peer = IdlePeer

----------------------------------------------------------------------------
(* The compiled build src/dist/index.js: runWorker takes one PENDING       *)
(* flashcard job at a time, with no claim write and no retry.  mainPc is   *)
(* "runWorker" while its loop runs; proc[j] is the loop iteration of job j.*)

DistMinContentLength == 100

NotEnoughTextError ==
    Err("none", "Error", TRUE, <<"Not", "enough", "text", "to", "generate", "flashcards">>)

\* err?.message || String(err) (dist/index.js:59)
DistErrorText(error) ==
    IF ~error.hasMessage \/ error.message = << >>
    THEN <<error.name>>
    ELSE error.message

\* cards.map((c, i) => ({ ..., order: i + 1 })) (dist/index.js:35-39)
DistChildOrders(n) == [k \in 1..n |-> (k - 1) + 1]

\* data: { status: "DONE", flashcardSetId: set.id, error: null } (dist/index.js:43-50)
DistSetDone(row, ref) == [row EXCEPT !.status = "DONE", !.resultRef = ref, !.error = Null]

\* The catch block (dist/index.js:53-61): the FAILED update is issued.
DistCatch(p, error) ==
    [p EXCEPT !.pc = "markFailed", !.failed = TRUE, !.caught = Text(DistErrorText(error))]

\* dist/index.js:24-27
DistCheckLengthThenGenerate(p, content) ==
    IF content.len = 0 \/ content.len < DistMinContentLength
    THEN DistCatch(p, NotEnoughTextError)
    ELSE [p EXCEPT !.pc = "generate", !.text = content, !.generateCalls = @ + 1]

DistLoopWaits == mainPc = "runWorker" /\ \A k \in Jobs : proc[k].pc = "idle"

DistAt(j, pc) == mainPc = "runWorker" /\ proc[j].pc = pc

DistFrame == UNCHANGED <<probeAttempt, timerInstalled, ticks, isPolling, shutdownRequested,
                         shutdownPc, activePollJobs, pollPc, pollKind, fetchAttempt,
                         dbCleanup, released, shutdownCause, signalledAt, peer>>

\* findFirst({ where: { status: "PENDING" } }) resolves with job j, whose
\* fileUrl and text are input (dist/index.js:9-27).
DistFindFirstResolves(j, input) ==
    /\ DistLoopWaits
    /\ j \in FlashcardJobs /\ IsPending(jobs[j])
    /\ LET p == [IdleProc EXCEPT !.job = input] IN
       SetProc(j, IF input.fileUrl.raw # ""
                  THEN [p EXCEPT !.pc = "extract", !.extractCalls = @ + 1]
                  ELSE DistCheckLengthThenGenerate(p, input.text))
    /\ UNCHANGED <<jobs, artifacts, mainPc, exitCode>>
    /\ UNCHANGED batchVars
    /\ DistFrame

\* findFirst rejects outside the try block: the promise of runWorker()
\* rejects with no handler, and the loop is over; the exit code is what the
\* runtime's unhandled-rejection mode gives.
DistFindFirstRejects(code) ==
    /\ DistLoopWaits
    /\ mainPc' = "exited"
    /\ exitCode' = code
    /\ UNCHANGED <<jobs, proc, artifacts>>
    /\ UNCHANGED batchVars
    /\ DistFrame

\* downloadFromDropbox and extractTextFromPDF resolve (dist/index.js:20-27).
DistExtractResolves(j, content) ==
    /\ DistAt(j, "extract")
    /\ SetProc(j, DistCheckLengthThenGenerate(proc[j], content))
    /\ UNCHANGED <<jobs, artifacts, mainPc, exitCode>>
    /\ UNCHANGED batchVars
    /\ DistFrame

\* downloadFromDropbox or extractTextFromPDF rejects.
DistExtractRejects(j, error) ==
    /\ DistAt(j, "extract")
    /\ SetProc(j, DistCatch(proc[j], error))
    /\ UNCHANGED <<jobs, artifacts, mainPc, exitCode>>
    /\ UNCHANGED batchVars
    /\ DistFrame

\* generateFlashcardsFromText resolves with n cards; flashcardSet.create is
\* issued (dist/index.js:27-42).
DistGenerateResolves(j, n) ==
    /\ DistAt(j, "generate")
    /\ SetProc(j, [proc[j] EXCEPT !.pc = "create", !.items = n, !.createCalls = @ + 1])
    /\ UNCHANGED <<jobs, artifacts, mainPc, exitCode>>
    /\ UNCHANGED batchVars
    /\ DistFrame

\* generateFlashcardsFromText rejects.
DistGenerateRejects(j, error) ==
    /\ DistAt(j, "generate")
    /\ SetProc(j, DistCatch(proc[j], error))
    /\ UNCHANGED <<jobs, artifacts, mainPc, exitCode>>
    /\ UNCHANGED batchVars
    /\ DistFrame

\* flashcardSet.create responds (dist/index.js:28-50).
DistCreateResponds(j, o) ==
    /\ DistAt(j, "create")
    /\ artifacts' = IF o.ok
                    THEN artifacts \cup {[id |-> NewArtifactId(j), job |-> j,
                                           orders |-> DistChildOrders(proc[j].items)]}
                    ELSE artifacts
    /\ SetProc(j, IF o.ok
                  THEN [proc[j] EXCEPT !.pc = "markDone", !.artifact = NewArtifactId(j)]
                  ELSE DistCatch(proc[j], o.error))
    /\ UNCHANGED <<jobs, mainPc, exitCode>>
    /\ UNCHANGED batchVars
    /\ DistFrame

\* The DONE update responds (dist/index.js:43-52): the loop goes on, or the
\* catch block runs.
DistMarkDoneResponds(j, o) ==
    /\ DistAt(j, "markDone")
    /\ jobs' = IF o.ok THEN [jobs EXCEPT ![j] = DistSetDone(@, proc[j].artifact)] ELSE jobs
    /\ SetProc(j, IF o.ok THEN IdleProc ELSE DistCatch(proc[j], o.error))
    /\ UNCHANGED <<artifacts, mainPc, exitCode>>
    /\ UNCHANGED batchVars
    /\ DistFrame

\* The FAILED update resolves (dist/index.js:55-63): the loop goes on.
DistMarkFailedResolves(j) ==
    /\ DistAt(j, "markFailed")
    /\ jobs' = [jobs EXCEPT ![j] = SetFailed(@, proc[j].caught)]
    /\ SetProc(j, IdleProc)
    /\ UNCHANGED <<artifacts, mainPc, exitCode>>
    /\ UNCHANGED batchVars
    /\ DistFrame

\* The FAILED update rejects inside the catch block: runWorker() rejects
\* with no handler, as when findFirst rejects.
DistMarkFailedRejects(j, code) ==
    /\ DistAt(j, "markFailed")
    /\ mainPc' = "exited"
    /\ exitCode' = code
    /\ UNCHANGED <<jobs, proc, artifacts>>
    /\ UNCHANGED batchVars
    /\ DistFrame

\* A flashcard job is submitted while runWorker runs.
DistSubmitJob(j) ==
    /\ mainPc = "runWorker"
    /\ j \in FlashcardJobs /\ jobs[j].status = "ABSENT"
    /\ jobs' = [jobs EXCEPT ![j] = SubmittedRow(KindOf(j), j)]
    /\ UNCHANGED <<proc, artifacts, mainPc, exitCode>>
    /\ UNCHANGED batchVars
    /\ DistFrame

\* runWorker() is called with empty tables.
InitDist == mainPc = "runWorker" /\ InitTables

----------------------------------------------------------------------------
(* The specifications.                                                     *)

NextRetry ==
    \/ QueryFnResolves /\ UNCHANGED <<batchVars, workerVars>>
    \/ QueryFnRejects /\ UNCHANGED <<batchVars, workerVars>>
    \/ BackoffElapses /\ UNCHANGED <<batchVars, workerVars>>

RetryInit == InitRetry /\ BatchIdle /\ WorkerIdle

SpecRetry == RetryInit /\ [][NextRetry]_vars

NextBatch ==
    \/ CallRunInBatches /\ UNCHANGED <<retryVars, workerVars>>
    \/ \E t \in 1..MaxTasks : TaskSettles(t, "fulfilled") /\ UNCHANGED <<retryVars, workerVars>>
    \/ \E t \in 1..MaxTasks : TaskSettles(t, "rejected") /\ UNCHANGED <<retryVars, workerVars>>
    \/ \E t \in 1..MaxTasks : RunNextResumes(t) /\ UNCHANGED <<retryVars, workerVars>>
    \/ RunInBatchesResolves /\ UNCHANGED <<retryVars, workerVars>>

\* Weak fairness: a started task settles, and a continuation that can run does.
BatchInit == InitBatch /\ RetryIdle /\ WorkerIdle

SpecBatch == BatchInit /\ [][NextBatch]_vars /\ WF_vars(NextBatch)

Next ==
    \/ \E o \in DbOutcomes : ProbeResponds(o)
    \/ Tick /\ UNCHANGED retryVars
    \/ \E o \in DbOutcomes : FetchResponds(o) /\ UNCHANGED retryVars
    \/ \E j \in Jobs : WorkerRunNextResumes(j) /\ UNCHANGED retryVars
    \/ BatchReturns /\ UNCHANGED retryVars
    \/ \E j \in Jobs, o \in DbOutcomes, input \in JobInputs :
          ClaimResponds(j, o, input) /\ UNCHANGED retryVars
    \/ \E j \in Jobs, c \in ExtractedContents : ExtractResolves(j, c) /\ UNCHANGED retryVars
    \/ \E j \in Jobs, e \in ExtractErrors : ExtractRejects(j, e) /\ UNCHANGED retryVars
    \/ \E j \in Jobs, n \in 0..MaxCards : GenerateResolves(j, n) /\ UNCHANGED retryVars
    \/ \E j \in Jobs, e \in GenerateErrors : GenerateRejects(j, e) /\ UNCHANGED retryVars
    \/ \E j \in Jobs, o \in DbOutcomes : CreateResponds(j, o) /\ UNCHANGED retryVars
    \/ \E j \in Jobs, o \in DbOutcomes : MarkDoneResponds(j, o) /\ UNCHANGED retryVars
    \/ \E j \in Jobs, o \in DbOutcomes : MarkFailedResponds(j, o) /\ UNCHANGED retryVars
    \/ Signal /\ UNCHANGED retryVars
    \/ DrainWaitElapses /\ UNCHANGED retryVars
    \/ DisconnectSettles /\ UNCHANGED retryVars
    \/ \E j \in Jobs : SubmitJob(j) /\ UNCHANGED retryVars

Init == InitWorker /\ RetryIdle

Spec == Init /\ [][Next]_vars

\* The first poll cycle of the worker over tables that hold their PENDING
\* jobs when the worker starts, with no timer tick and no signal before the
\* cycle ends: its batches hold several jobs.
CycleFlashcardJobs == 2
CycleQuizJobs == 0

PendingTables(f, q) ==
    [j \in 1..(f + q) |-> SubmittedRow(IF j <= f THEN "flashcard" ELSE "quiz", j)]

NextCycle ==
    \/ \E o \in DbOutcomes : ProbeResponds(o)
    \/ \E o \in DbOutcomes : FetchResponds(o) /\ UNCHANGED retryVars
    \/ \E j \in Jobs : WorkerRunNextResumes(j) /\ UNCHANGED retryVars
    \/ BatchReturns /\ UNCHANGED retryVars
    \/ \E j \in Jobs, o \in DbOutcomes, input \in JobInputs :
          ClaimResponds(j, o, input) /\ UNCHANGED retryVars
    \/ \E j \in Jobs, c \in ExtractedContents : ExtractResolves(j, c) /\ UNCHANGED retryVars
    \/ \E j \in Jobs, e \in ExtractErrors : ExtractRejects(j, e) /\ UNCHANGED retryVars
    \/ \E j \in Jobs, n \in 0..MaxCards : GenerateResolves(j, n) /\ UNCHANGED retryVars
    \/ \E j \in Jobs, e \in GenerateErrors : GenerateRejects(j, e) /\ UNCHANGED retryVars
    \/ \E j \in Jobs, o \in DbOutcomes : CreateResponds(j, o) /\ UNCHANGED retryVars
    \/ \E j \in Jobs, o \in DbOutcomes : MarkDoneResponds(j, o) /\ UNCHANGED retryVars
    \/ \E j \in Jobs, o \in DbOutcomes : MarkFailedResponds(j, o) /\ UNCHANGED retryVars

InitCycle ==
    /\ mainPc = "probe"
    /\ InitTablesOf(PendingTables(CycleFlashcardJobs, CycleQuizJobs))
    /\ dbCleanup = FALSE
    /\ RetryIdle

SpecCycle == InitCycle /\ [][NextCycle]_vars

\* The first poll cycle of the worker over one table of FetchRows rows, more
\* than a batch takes, each PENDING or left PROCESSING by an earlier run,
\* created in the order of their ids, in the reverse order or in a mixed
\* order.  Every processor takes its shortest way: the claim write fails
\* and the FAILED write succeeds.
FetchRows == 7

FetchOrders ==
    { [j \in 1..FetchRows |-> j],
      [j \in 1..FetchRows |-> FetchRows + 1 - j],
      [j \in 1..FetchRows |-> IF j % 2 = 1 THEN (j + 1) \div 2
                                           ELSE FetchRows + 1 - (j \div 2)] }

FetchTable(kind, order, pending) ==
    [j \in 1..FetchRows |->
        [SubmittedRow(kind, order[j]) EXCEPT
            !.status = IF j \in pending THEN "PENDING" ELSE "PROCESSING"]]

NextFetch ==
    \/ \E o \in DbOutcomes : ProbeResponds(o)
    \/ \E o \in DbOutcomes : FetchResponds(o) /\ UNCHANGED retryVars
    \/ \E j \in Jobs : WorkerRunNextResumes(j) /\ UNCHANGED retryVars
    \/ BatchReturns /\ UNCHANGED retryVars
    \/ \E j \in Jobs : ClaimResponds(j, Fail(ConstraintError), NoInput) /\ UNCHANGED retryVars
    \/ \E j \in Jobs : MarkFailedResponds(j, Ok("rows")) /\ UNCHANGED retryVars

InitFetch ==
    /\ mainPc = "probe"
    /\ \E kind \in Kinds, order \in FetchOrders, pending \in SUBSET (1..FetchRows) :
          InitTablesOf(FetchTable(kind, order, pending))
    /\ dbCleanup = FALSE
    /\ RetryIdle

SpecFetch == InitFetch /\ [][NextFetch]_vars

\* Two worker processes on the same tables: the first poll cycle of this
\* worker, and the polls of the peer at any time.
SharedFlashcardJobs == 1
SharedQuizJobs == 0

NextPeer ==
    \/ \E kind \in Kinds : PeerPolls(kind) /\ PeerFrame
    \/ PeerFetchResponds /\ PeerFrame
    \/ \E j \in Jobs : PeerClaimResponds(j) /\ PeerFrame
    \/ \E j \in Jobs, succeeds \in BOOLEAN, n \in 0..MaxCards :
          PeerProcessorReturns(j, succeeds, n) /\ PeerFrame
    \/ PeerBatchReturns /\ PeerFrame

NextTwoWorkers == NextCycle \/ NextPeer

InitTwoWorkers ==
    /\ mainPc = "probe"
    /\ InitTablesOf(PendingTables(SharedFlashcardJobs, SharedQuizJobs))
    /\ dbCleanup = FALSE
    /\ RetryIdle

SpecTwoWorkers == InitTwoWorkers /\ [][NextTwoWorkers]_vars

\* The worker over tables that hold their PENDING jobs when it starts, with
\* a timer that goes on firing, no signal, and every call returning: the
\* timer is fair, and so is every call in flight (the probe, the fetch, each
\* step of each processor) and every resumption of the batch runner.
LiveFlashcardJobs == 1
LiveQuizJobs == 0

JobCallReturns(j) ==
    \/ \E o \in DbOutcomes, input \in JobInputs :
          ClaimResponds(j, o, input) /\ UNCHANGED retryVars
    \/ \E c \in ExtractedContents : ExtractResolves(j, c) /\ UNCHANGED retryVars
    \/ \E e \in ExtractErrors : ExtractRejects(j, e) /\ UNCHANGED retryVars
    \/ \E n \in 0..MaxCards : GenerateResolves(j, n) /\ UNCHANGED retryVars
    \/ \E e \in GenerateErrors : GenerateRejects(j, e) /\ UNCHANGED retryVars
    \/ \E o \in DbOutcomes : CreateResponds(j, o) /\ UNCHANGED retryVars
    \/ \E o \in DbOutcomes : MarkDoneResponds(j, o) /\ UNCHANGED retryVars
    \/ \E o \in DbOutcomes : MarkFailedResponds(j, o) /\ UNCHANGED retryVars

ProbeReturns == \E o \in DbOutcomes : ProbeResponds(o)

FetchReturns == \E o \in DbOutcomes : FetchResponds(o) /\ UNCHANGED retryVars

BatchRunnerResumes ==
    \/ \E j \in 1..(LiveFlashcardJobs + LiveQuizJobs) :
          WorkerRunNextResumes(j) /\ UNCHANGED retryVars
    \/ BatchReturns /\ UNCHANGED retryVars

NextLive ==
    \/ ProbeReturns
    \/ TimerFires /\ UNCHANGED retryVars
    \/ FetchReturns
    \/ BatchRunnerResumes
    \/ \E j \in 1..(LiveFlashcardJobs + LiveQuizJobs) : JobCallReturns(j)

InitLive ==
    /\ mainPc = "probe"
    /\ InitTablesOf(PendingTables(LiveFlashcardJobs, LiveQuizJobs))
    /\ dbCleanup = FALSE
    /\ RetryIdle

SpecLive ==
    /\ InitLive
    /\ [][NextLive]_vars
    /\ WF_vars(ProbeReturns)
    /\ WF_vars(TimerFires /\ UNCHANGED retryVars)
    /\ WF_vars(FetchReturns)
    /\ WF_vars(BatchRunnerResumes)
    /\ \A j \in 1..(LiveFlashcardJobs + LiveQuizJobs) : WF_vars(JobCallReturns(j))

\* The worker process with everything its environment can deliver at any
\* time: signals before and after main registers its handlers, faults
\* outside the processors, and either db module (with the cleanup of
\* src/unnamed/part_000 registered, or without, as in src/dist/src/db.js).
ProcessFlashcardJobs == 1
ProcessQuizJobs == 0

InitProcess ==
    /\ mainPc = "probe"
    /\ InitTablesOf(EmptyTables(ProcessFlashcardJobs, ProcessQuizJobs))
    /\ dbCleanup \in BOOLEAN
    /\ RetryIdle

\* Signals at any time, no fault.
NextSignals ==
    \/ Next
    \/ \E sig \in Signals : EarlySignal(sig) /\ UNCHANGED retryVars

SpecSignals == InitProcess /\ [][NextSignals]_vars

\* Signals and faults at any time.
NextProcess ==
    \/ NextSignals
    \/ Fault /\ UNCHANGED retryVars
    \/ EarlyFault /\ UNCHANGED retryVars

SpecProcess == InitProcess /\ [][NextProcess]_vars

\* The first poll cycle of the worker over one table that holds its PENDING
\* jobs when the worker starts, each submitted with a file reference: an
\* http, https or r2 URL, a URL of another scheme, or a string that is no URL.
ReferenceJobs == 1

ReferenceUrls == {HttpsUrl, HttpUrl, R2Url, FtpUrl, NotAUrl}

ReferenceInputs == {[fileUrl |-> u, text |-> NoContent] : u \in ReferenceUrls}

NextReferences ==
    \/ \E o \in DbOutcomes : ProbeResponds(o)
    \/ \E o \in DbOutcomes : FetchResponds(o) /\ UNCHANGED retryVars
    \/ \E j \in Jobs : WorkerRunNextResumes(j) /\ UNCHANGED retryVars
    \/ BatchReturns /\ UNCHANGED retryVars
    \/ \E j \in Jobs, o \in DbOutcomes, input \in ReferenceInputs :
          ClaimResponds(j, o, input) /\ UNCHANGED retryVars
    \/ \E j \in Jobs, c \in ExtractedContents : ExtractResolves(j, c) /\ UNCHANGED retryVars
    \/ \E j \in Jobs, e \in ExtractErrors : ExtractRejects(j, e) /\ UNCHANGED retryVars
    \/ \E j \in Jobs, n \in 0..MaxCards : GenerateResolves(j, n) /\ UNCHANGED retryVars
    \/ \E j \in Jobs, e \in GenerateErrors : GenerateRejects(j, e) /\ UNCHANGED retryVars
    \/ \E j \in Jobs, o \in DbOutcomes : CreateResponds(j, o) /\ UNCHANGED retryVars
    \/ \E j \in Jobs, o \in DbOutcomes : MarkDoneResponds(j, o) /\ UNCHANGED retryVars
    \/ \E j \in Jobs, o \in DbOutcomes : MarkFailedResponds(j, o) /\ UNCHANGED retryVars

InitReferences ==
    /\ mainPc = "probe"
    /\ \E kind \in Kinds :
          InitTablesOf([j \in 1..ReferenceJobs |-> SubmittedRow(kind, j)])
    /\ dbCleanup = FALSE
    /\ RetryIdle

SpecReferences == InitReferences /\ [][NextReferences]_vars

\* The first poll cycle of the worker over one table that holds its PENDING
\* jobs when the worker starts, with texts at the minimum length and just
\* below it: a job is submitted with an inline text of 49 or of 50
\* characters, with a file whose text has 49 or 50 characters, or with
\* neither a file nor a text.
ContentJobs == 1

BelowMinimum == MinContentLength - 1

InlineContents == {Content("inline49", BelowMinimum), Content("inline50", MinContentLength)}

FileContents == {Content("pdf49", BelowMinimum), Content("pdf50", MinContentLength)}

ContentInputs ==
    {[fileUrl |-> NullUrl, text |-> c] : c \in InlineContents \cup {NoContent}}
        \cup {[fileUrl |-> HttpsUrl, text |-> NoContent]}

NextContents ==
    \/ \E o \in DbOutcomes : ProbeResponds(o)
    \/ \E o \in DbOutcomes : FetchResponds(o) /\ UNCHANGED retryVars
    \/ \E j \in Jobs : WorkerRunNextResumes(j) /\ UNCHANGED retryVars
    \/ BatchReturns /\ UNCHANGED retryVars
    \/ \E j \in Jobs, o \in DbOutcomes, input \in ContentInputs :
          ClaimResponds(j, o, input) /\ UNCHANGED retryVars
    \/ \E j \in Jobs, c \in FileContents : ExtractResolves(j, c) /\ UNCHANGED retryVars
    \/ \E j \in Jobs, e \in ExtractErrors : ExtractRejects(j, e) /\ UNCHANGED retryVars
    \/ \E j \in Jobs, n \in 0..MaxCards : GenerateResolves(j, n) /\ UNCHANGED retryVars
    \/ \E j \in Jobs, e \in GenerateErrors : GenerateRejects(j, e) /\ UNCHANGED retryVars
    \/ \E j \in Jobs, o \in DbOutcomes : CreateResponds(j, o) /\ UNCHANGED retryVars
    \/ \E j \in Jobs, o \in DbOutcomes : MarkDoneResponds(j, o) /\ UNCHANGED retryVars
    \/ \E j \in Jobs, o \in DbOutcomes : MarkFailedResponds(j, o) /\ UNCHANGED retryVars

InitContents ==
    /\ mainPc = "probe"
    /\ \E kind \in Kinds :
          InitTablesOf([j \in 1..ContentJobs |-> SubmittedRow(kind, j)])
    /\ dbCleanup = FALSE
    /\ RetryIdle

SpecContents == InitContents /\ [][NextContents]_vars

\* The first poll cycle of the worker over one table that holds more PENDING
\* jobs than the batch runner runs at a time.  Every job has an inline text
\* long enough; the create call may meet pool-exhaustion errors, and every
\* other call succeeds.
LoadJobs == 4

LongInput == [fileUrl |-> NullUrl, text |-> LongContent]

NextLoad ==
    \/ \E o \in DbOutcomes : ProbeResponds(o)
    \/ FetchResponds(Ok("rows")) /\ UNCHANGED retryVars
    \/ \E j \in Jobs : WorkerRunNextResumes(j) /\ UNCHANGED retryVars
    \/ BatchReturns /\ UNCHANGED retryVars
    \/ \E j \in Jobs : ClaimResponds(j, Ok("rows"), LongInput) /\ UNCHANGED retryVars
    \/ \E j \in Jobs : GenerateResolves(j, 1) /\ UNCHANGED retryVars
    \/ \E j \in Jobs, o \in {Ok("rows"), Fail(PoolMessageError)} :
          CreateResponds(j, o) /\ UNCHANGED retryVars
    \/ \E j \in Jobs : MarkDoneResponds(j, Ok("rows")) /\ UNCHANGED retryVars
    \/ \E j \in Jobs : MarkFailedResponds(j, Ok("rows")) /\ UNCHANGED retryVars

InitLoad ==
    /\ mainPc = "probe"
    /\ \E kind \in Kinds :
          InitTablesOf([j \in 1..LoadJobs |-> SubmittedRow(kind, j)])
    /\ dbCleanup = FALSE
    /\ RetryIdle

SpecLoad == InitLoad /\ [][NextLoad]_vars

\* The exit codes an unhandled rejection ends the process with.
UnhandledRejectionExitCodes == {0, 1}

NextDist ==
    \/ \E j \in Jobs, input \in JobInputs : DistFindFirstResolves(j, input) /\ UNCHANGED retryVars
    \/ \E c \in UnhandledRejectionExitCodes : DistFindFirstRejects(c) /\ UNCHANGED retryVars
    \/ \E j \in Jobs, c \in ExtractedContents \cup {LongContent} :
          DistExtractResolves(j, c) /\ UNCHANGED retryVars
    \/ \E j \in Jobs, e \in ExtractErrors : DistExtractRejects(j, e) /\ UNCHANGED retryVars
    \/ \E j \in Jobs, n \in 0..MaxCards : DistGenerateResolves(j, n) /\ UNCHANGED retryVars
    \/ \E j \in Jobs, e \in GenerateErrors : DistGenerateRejects(j, e) /\ UNCHANGED retryVars
    \/ \E j \in Jobs, o \in DbOutcomes : DistCreateResponds(j, o) /\ UNCHANGED retryVars
    \/ \E j \in Jobs, o \in DbOutcomes : DistMarkDoneResponds(j, o) /\ UNCHANGED retryVars
    \/ \E j \in Jobs : DistMarkFailedResolves(j) /\ UNCHANGED retryVars
    \/ \E j \in Jobs, c \in UnhandledRejectionExitCodes :
          DistMarkFailedRejects(j, c) /\ UNCHANGED retryVars
    \/ \E j \in Jobs : DistSubmitJob(j) /\ UNCHANGED retryVars

\* The two builds of the repository: the process runs main() of src/index.ts
\* or runWorker() of src/dist/index.js.
InitBuilds == (InitWorker \/ InitDist) /\ RetryIdle

NextBuilds == Next \/ NextDist

SpecBuilds == InitBuilds /\ [][NextBuilds]_vars

----------------------------------------------------------------------------
(* Claims about executeWithRetry, checked under SpecRetry.                 *)

\* The pool-exhaustion signature, stated on the error itself: the code P2037,
\* or a message that holds the words "too many connections" in a row.
HasPoolSignature(error) ==
    \/ error.code = "P2037"
    \/ /\ error.hasMessage
       /\ \E k \in 0..Len(error.message) :
             /\ k + 3 <= Len(error.message)
             /\ error.message[k + 1] = "too"
             /\ error.message[k + 2] = "many"
             /\ error.message[k + 3] = "connections"

LastOutcome == outcomes[Len(outcomes)]

\* Every invocation but the last one failed with a transient error.
EarlierAttemptsTransient ==
    \A j \in 1..(Len(outcomes) - 1) :
        ~outcomes[j].ok /\ HasPoolSignature(outcomes[j].error)

\* C4: when the operation fails k times with a transient error and then
\* succeeds (k < maxRetries), executeWithRetry returns that success value and
\* the operation was invoked exactly k + 1 times; when an attempt fails with a
\* non-transient error, that error is thrown at once and the operation is not
\* invoked again.
C4_RetryThenSuccessOrFailFast ==
    /\ invocations = Len(outcomes)
    /\ EarlierAttemptsTransient
    /\ (Len(outcomes) >= 1 /\ LastOutcome.ok) =>
          /\ Len(outcomes) - 1 < maxRetries
          /\ retryPc = "returned"
          /\ retryResult = Ok(LastOutcome.value)
    /\ (Len(outcomes) >= 1 /\ ~LastOutcome.ok /\ ~HasPoolSignature(LastOutcome.error)) =>
          /\ retryPc = "thrown"
          /\ retryResult = Fail(LastOutcome.error)
    /\ retryPc = "returned" => (Len(outcomes) >= 1 /\ LastOutcome.ok)

\* Two transient failures, then a success, with maxRetries = 3: three invocations.
C4_Witness ==
    /\ maxRetries = 3
    /\ retryPc = "returned"
    /\ invocations = 3
    /\ ~outcomes[1].ok /\ ~outcomes[2].ok /\ outcomes[3].ok

\* C5: the operation is never invoked more than maxRetries times; when every
\* attempt fails with a transient error it is invoked exactly maxRetries times
\* and the error of the last attempt is thrown; and an error is treated as
\* transient (followed by a backoff) iff its code is P2037 or its message
\* contains "too many connections".
C5_ExhaustionThrowsLastError ==
    /\ invocations <= maxRetries
    /\ (retryPc = "thrown" /\ Len(outcomes) >= 1 /\ HasPoolSignature(LastOutcome.error)) =>
          /\ invocations = maxRetries
          /\ \A j \in 1..maxRetries : ~outcomes[j].ok /\ HasPoolSignature(outcomes[j].error)
          /\ retryResult = Fail(outcomes[maxRetries].error)
    /\ (Len(outcomes) = maxRetries /\ ~LastOutcome.ok /\ HasPoolSignature(LastOutcome.error)) =>
          retryPc \in {"sleep", "thrown"}
    /\ \A j \in 1..Len(outcomes) :
          ~outcomes[j].ok => (j <= Len(sleeps) <=> HasPoolSignature(outcomes[j].error))

\* Three transient failures with maxRetries = 3, the last one recognised by
\* its message: the call has thrown.
C5_Witness ==
    /\ maxRetries = 3
    /\ retryPc = "thrown"
    /\ invocations = 3
    /\ retryResult = Fail(PoolMessageError)
    /\ outcomes[1] # outcomes[3]

----------------------------------------------------------------------------
(* Claims about runInBatches, checked under SpecBatch.                     *)

\* The tasks that were started and have not settled.
InFlight == {t \in DOMAIN taskState : taskState[t] = "pending"}

\* C1: for every task list and every limit L >= 1, at most L tasks are
\* started and not yet settled, in every reachable state.
C1_AtMostLimitInFlight ==
    (batchPc # "idle" /\ limit >= 1) => Cardinality(InFlight) <= limit

\* Five tasks, limit 3: the budget is full after a settled task was replaced.
C1_Witness ==
    /\ Len(tasks) = 5
    /\ limit = 3
    /\ index = 5
    /\ Cardinality(InFlight) = 3
    /\ \E t \in DOMAIN taskState : taskState[t] = "rejected"

C2_Safety ==
    /\ \A t \in DOMAIN started : started[t] <= 1
    /\ batchPc # "rejected"
    /\ batchPc = "resolved" =>
          \A k \in 1..Len(tasks) :
              started[tasks[k]] = 1 /\ taskState[tasks[k]] \in Settled

\* C2: every task is started exactly once whatever the outcome of the other
\* tasks, runInBatches resolves only after every task has settled and never
\* rejects, and, every started task settling, it eventually resolves.
C2_AllTasksRunThenResolve ==
    /\ [](batchPc # "idle" => C2_Safety)
    /\ <>(batchPc = "resolved")

\* runInBatches has resolved after four tasks of which the first two rejected.
C2_Witness ==
    /\ batchPc = "resolved"
    /\ Len(tasks) = 4
    /\ limit = 2
    /\ taskState[1] = "rejected" /\ taskState[2] = "rejected"
    /\ taskState[3] = "fulfilled"

----------------------------------------------------------------------------
(* Claims about the worker process, checked under Spec.                    *)

Rows == {j \in Jobs : jobs[j].status # "ABSENT"}

\* Everything a poll cycle or a job run can change: all but the tick count.
AllButTicks == <<mainPc, probeAttempt, exitCode, timerInstalled, isPolling,
                 shutdownRequested, shutdownPc, activePollJobs, pollPc, pollKind,
                 fetchAttempt, jobs, proc, artifacts, batchVars>>

\* C3: at most one invocation of pollJobs is active at any instant, and a
\* timer tick that fires while isPolling is true changes nothing: it issues
\* no fetch, claims no job, and leaves nothing behind that would run later.
C3_PollCyclesNeverOverlap ==
    [][ /\ activePollJobs <= 1 /\ activePollJobs' <= 1
        /\ (isPolling /\ ticks' # ticks) => UNCHANGED AllButTicks ]_vars

\* The timer has fired during the initial poll, whose flashcard job is at its
\* generation call: the cycle goes on alone.
C3_Witness ==
    /\ mainPc = "initialPoll"
    /\ ticks = 1
    /\ isPolling
    /\ activePollJobs = 1
    /\ pollPc = "batch"
    /\ proc[1].pc = "generate"

\* C6: a job row whose status is DONE or FAILED never changes status again,
\* and no row ever moves back to PENDING: PROCESSING, DONE and FAILED rows do
\* not become PENDING, and a row, once there, stays.
C6_StatusMonotonic ==
    [][ \A j \in Jobs :
          /\ jobs[j].status \in {"DONE", "FAILED"} => jobs'[j].status = jobs[j].status
          /\ jobs[j].status \in {"PROCESSING", "DONE", "FAILED"} => jobs'[j].status # "PENDING"
          /\ jobs[j].status # "ABSENT" => jobs'[j].status # "ABSENT" ]_vars

\* The second poll cycle is at its quiz fetch with the flashcard job DONE and
\* the quiz job FAILED: both were fetched once and are not fetched again.
C6_Witness ==
    /\ mainPc = "running"
    /\ isPolling
    /\ pollKind = "quiz"
    /\ pollPc = "fetch"
    /\ jobs[1].status = "DONE"
    /\ jobs[NumFlashcardJobs + 1].status = "FAILED"

\* C7: in every reachable state and for every job row, resultRef is non-null
\* iff status is DONE, and error is non-null iff status is FAILED.
C7_ResultIffDoneErrorIffFailed ==
    \A j \in Rows :
        /\ jobs[j].resultRef # NullRef <=> jobs[j].status = "DONE"
        /\ ~jobs[j].error.isNull <=> jobs[j].status = "FAILED"

\* One row is DONE with its result, the other FAILED with its error.
C7_Witness ==
    /\ \E j \in Rows : jobs[j].status = "DONE" /\ jobs[j].resultRef # NullRef
    /\ \E j \in Rows : jobs[j].status = "FAILED" /\ ~jobs[j].error.isNull

\* The row of a failed job as C8 wants it.
FailedRowOk(j) ==
    /\ jobs[j].status = "FAILED"
    /\ ~jobs[j].error.isNull
    /\ jobs[j].error.words # << >>
    /\ jobs[j].resultRef = NullRef

\* C8 as stated: for every job whose processing failed at any step, once the
\* processor has returned the row is FAILED with a non-null non-empty error
\* and a null resultRef.
C8_AsStated ==
    \A j \in Jobs :
        (proc[j].pc = "returned" /\ proc[j].failed) => FailedRowOk(j)

\* C8, amended: for every job whose processing failed at any step and whose
\* FAILED write succeeded, once the processor has returned the row is FAILED
\* with a non-null non-empty error and a null resultRef; when the FAILED write
\* fails too, the row keeps the status it had (PENDING or PROCESSING), with
\* no error and no resultRef.
C8_FailedWhenFailedWriteSucceeds ==
    \A j \in Jobs :
        (proc[j].pc = "returned" /\ proc[j].failed) =>
            IF proc[j].failedWritten
            THEN FailedRowOk(j)
            ELSE /\ jobs[j].status = (IF proc[j].claimed THEN "PROCESSING" ELSE "PENDING")
                 /\ jobs[j].error.isNull
                 /\ jobs[j].resultRef = NullRef

\* A run failed after its artifact was created (the DONE write threw) and
\* its FAILED write succeeded.
C8_Witness ==
    \E j \in Jobs :
        /\ proc[j].pc = "returned" /\ proc[j].failed /\ proc[j].failedWritten
        /\ \E a \in artifacts : a.job = j
        /\ FailedRowOk(j)

\* C10: the extraction call, the generation call and the create write of a
\* run are issued only after the run's claim write has succeeded, the row
\* then being PROCESSING; a run whose claim write failed issues none of them.
C10_ClaimPrecedesWork ==
    \A j \in Jobs :
        /\ proc[j].pc \in {"extract", "generate", "create", "markDone"} =>
              proc[j].claimed /\ jobs[j].status = "PROCESSING"
        /\ (proc[j].extractCalls + proc[j].generateCalls + proc[j].createCalls > 0) =>
              proc[j].claimed
        /\ (proc[j].pc \in {"markFailed", "returned"} /\ ~proc[j].claimed) =>
              /\ proc[j].failed
              /\ proc[j].extractCalls = 0 /\ proc[j].generateCalls = 0 /\ proc[j].createCalls = 0
              /\ ~\E a \in artifacts : a.id = <<j, 1>>

\* The claim write of a job with a usable text has thrown after its retries:
\* the run is at its FAILED write and has called nothing.
C10_Witness ==
    \E j \in Jobs :
        /\ proc[j].pc = "markFailed" /\ ~proc[j].claimed
        /\ proc[j].job.text = LongContent
        /\ proc[j].caught = Text(PoolMessageError.message)
        /\ jobs[j].status = "PENDING"

----------------------------------------------------------------------------
(* A claim about both builds, checked under SpecBuilds.                    *)

\* The order of the first child: 0 in src/index.ts, 1 in src/dist/index.js.
FirstOrder == IF mainPc = "runWorker" THEN 1 ELSE 0

ArtifactOf(id) == CHOOSE a \in artifacts : a.id = id

\* The artifact of a run that is at its DONE write.
CreatedArtifactOk(j) ==
    /\ \E a \in artifacts : a.id = proc[j].artifact
    /\ ArtifactOf(proc[j].artifact).job = j
    /\ Len(ArtifactOf(proc[j].artifact).orders) = proc[j].items
    /\ \A k \in 1..proc[j].items :
          ArtifactOf(proc[j].artifact).orders[k] = FirstOrder + (k - 1)

C9_DoneRows ==
    \A j \in Jobs :
        /\ proc[j].pc = "markDone" => CreatedArtifactOk(j)
        /\ jobs[j].status = "DONE" =>
              /\ \E a \in artifacts : a.id = jobs[j].resultRef /\ a.job = j
              /\ jobs[j].error.isNull

\* C9: a job that completes successfully is DONE with a null error, and its
\* resultRef is the artifact its run created, which has as many children as
\* the generation call returned, child i carrying order i, from 0 in
\* src/index.ts and from 1 in src/dist/index.js; the artifact is not changed
\* afterwards.
C9_SuccessfulJob ==
    /\ []C9_DoneRows
    /\ [][ /\ \A a \in artifacts : a \in artifacts'
           /\ \A j \in Jobs :
                 (jobs[j].status # "DONE" /\ jobs'[j].status = "DONE") =>
                     /\ proc[j].pc = "markDone"
                     /\ jobs'[j].resultRef = proc[j].artifact ]_vars

\* main() of src/index.ts has completed a job with two children: orders 0, 1.
C9_Witness ==
    \E j \in Jobs :
        /\ mainPc = "initialPoll"
        /\ jobs[j].status = "DONE"
        /\ \E a \in artifacts : a.id = jobs[j].resultRef /\ a.job = j /\ a.orders = <<0, 1>>

\* runWorker() of src/dist/index.js has completed a job with two cards: orders 1, 2.
C9_DistWitness ==
    \E j \in Jobs :
        /\ mainPc = "runWorker"
        /\ jobs[j].status = "DONE"
        /\ \E a \in artifacts : a.id = jobs[j].resultRef /\ a.job = j /\ a.orders = <<1, 2>>

----------------------------------------------------------------------------
(* Claims about a poll cycle whose batch holds several jobs, checked       *)
(* under SpecCycle.                                                        *)

\* C11: whatever error occurs in a step of a processor, a failure of the
\* FAILED write included, the processor's promise never rejects, a step of a
\* processor does not end the process or the poll cycle, the batch returns
\* only when every job of it was processed, and the cycle then goes on to
\* the quiz jobs and ends with isPolling false.
C11_JobErrorsContained ==
    /\ [](\A j \in Jobs : taskState[j] # "rejected")
    /\ [][ /\ (\E j \in Jobs : proc[j].pc \notin {"idle", "returned"} /\ proc'[j] # proc[j]) =>
                /\ mainPc' = mainPc /\ exitCode' = exitCode
                /\ isPolling' = isPolling /\ pollPc' = pollPc /\ pollKind' = pollKind
           /\ (mainPc # "exited" /\ mainPc' = "exited") =>
                (mainPc = "probe" \/ shutdownPc = "disconnecting")
           /\ (pollPc = "batch" /\ pollPc' # "batch") =>
                /\ \A k \in 1..Len(tasks) :
                      /\ started[tasks[k]] = 1
                      /\ taskState[tasks[k]] = "fulfilled"
                      /\ proc[tasks[k]].pc = "returned"
                /\ mainPc' # "exited"
                /\ IF pollKind = "flashcard"
                   THEN pollPc' = "fetch" /\ pollKind' = "quiz" /\ isPolling'
                   ELSE pollPc' = "idle" /\ ~isPolling' ]_vars

\* The initial poll has ended and the process runs on: the first job of its
\* flashcard batch failed and its FAILED write failed too (the row is left
\* PROCESSING), and the second job of the batch is DONE.
C11_Witness ==
    /\ mainPc = "running"
    /\ pollPc = "idle" /\ ~isPolling
    /\ exitCode = -1
    /\ jobs[1].status = "PROCESSING"
    /\ jobs[2].status = "DONE"

----------------------------------------------------------------------------
(* Claims about the worker process, checked under Spec.                    *)

\* C12 as stated: a job whose processing raised an error in any step, the
\* claim included, and whose FAILED write failed too is left PROCESSING.
C12_AsStated ==
    \A j \in Jobs :
        (proc[j].pc = "returned" /\ proc[j].failed /\ ~proc[j].failedWritten) =>
            jobs[j].status = "PROCESSING"

\* C12, amended: a job whose processing raised an error and whose FAILED
\* write failed too is left with the status it had when the error was
\* raised: PROCESSING when its claim write had succeeded, PENDING when the
\* claim write was the step that failed; its error and resultRef stay null.
C12_OrphanKeepsStatus ==
    \A j \in Jobs :
        (proc[j].pc = "returned" /\ proc[j].failed /\ ~proc[j].failedWritten) =>
            /\ jobs[j].status = IF proc[j].claimed THEN "PROCESSING" ELSE "PENDING"
            /\ jobs[j].error = Null
            /\ jobs[j].resultRef = NullRef

\* A claimed job failed in a later step, its FAILED write failed, and its
\* processor has returned.
C12_Witness ==
    \E j \in Jobs :
        /\ proc[j].pc = "returned" /\ proc[j].failed /\ ~proc[j].failedWritten
        /\ proc[j].claimed
        /\ jobs[j].status = "PROCESSING"

\* C17: the connectivity probe is attempted at most DefaultMaxRetries times,
\* and when it ends with an error (a non-transient one, or a transient one
\* on the last attempt) the process exits with code 1 in the same step; a process that exited with code 1 has installed no timer, has
\* run no poll cycle, has fetched no job and has started no processor, and
\* no row was written.
C17_StartupFailure ==
    /\ [](probeAttempt < DefaultMaxRetries)
    /\ [](exitCode = 1 =>
            /\ mainPc = "exited"
            /\ ~timerInstalled /\ ticks = 0
            /\ ~isPolling /\ activePollJobs = 0
            /\ pollPc = "idle" /\ fetchAttempt = 0
            /\ batchPc = "idle" /\ tasks = << >>
            /\ \A j \in Jobs :
                  /\ proc[j] = IdleProc
                  /\ started[j] = 0
                  /\ jobs[j].status \in {"ABSENT", "PENDING"}
            /\ artifacts = {})
    /\ [][mainPc = "probe" =>
             \/ /\ mainPc' = "probe" /\ probeAttempt' = probeAttempt + 1
                /\ IsTransient(lastError')
             \/ /\ mainPc' = "initialPoll" /\ lastError' = NoError
                /\ timerInstalled'
             \/ /\ mainPc' = "exited" /\ exitCode' = 1 /\ ~timerInstalled'
                /\ lastError' # NoError
                /\ IsTransient(lastError') => probeAttempt = DefaultMaxRetries - 1
                /\ pollPc' = "idle" /\ proc' = proc /\ jobs' = jobs]_vars

\* The probe failed transiently on all three attempts and the process exited
\* with code 1.
C17_Witness ==
    /\ mainPc = "exited"
    /\ exitCode = 1
    /\ probeAttempt = DefaultMaxRetries - 1
    /\ IsTransient(lastError)

\* C15: once shutdownRequested is set, no processor is started, that is, no
\* claim write is issued for a job that was not in flight: neither for a
\* queued task of the running batch nor for a job fetched later in the cycle.
C15_NoNewClaimOnceShutdownRequested ==
    [][shutdownRequested =>
          \A j \in Jobs : proc'[j].pc = "claim" => proc[j].pc = "claim"]_vars

----------------------------------------------------------------------------
(* Claims about signals and faults, checked under SpecSignals and          *)
(* SpecProcess.                                                            *)

\* The positions of a processor at which a persistence call is in flight.
PersistencePcs == {"claim", "create", "markDone", "markFailed"}

\* No cycle is running and no processor is in flight.
Drained ==
    /\ ~isPolling /\ activePollJobs = 0 /\ pollPc = "idle"
    /\ \A j \in Jobs : proc[j] = IdleProc

\* C14: after a SIGTERM / SIGINT that arrived once the probe had succeeded,
\* during the initial poll included, no new poll cycle starts, and the
\* process ends in no other way than with exit code 0 after the cycle that
\* was in flight has drained.
C14_GracefulShutdown ==
    /\ [][(signalledAt \in {"initialPoll", "running"}) =>
             ~(activePollJobs' > activePollJobs)]_vars
    /\ []((signalledAt \in {"initialPoll", "running"} /\ mainPc = "exited") =>
             (exitCode = 0 /\ Drained))

\* C16: once prisma.$disconnect() has been called by a handler of the
\* signal, no processor issues a persistence call (a claim, create, DONE or
\* FAILED write, or a retry of one).
C16_NoPersistenceCallAfterRelease ==
    [][released =>
          \A j \in Jobs :
              proc'[j] # proc[j] => proc'[j].pc \notin PersistencePcs]_vars

\* C18: a process whose shutdown was started by an uncaught exception or an
\* unhandled rejection exits with code 1, and exit code 0 is produced only
\* by a shutdown that a signal requested.
C18_FaultExitsWithCode1 ==
    /\ (mainPc = "exited" /\ shutdownCause = "fault") => exitCode = 1
    /\ exitCode = 0 => shutdownCause = "signal"

----------------------------------------------------------------------------
(* Claims about what a fetch hands to the batch runner, checked under      *)
(* SpecFetch.                                                              *)

----------------------------------------------------------------------------
(* Claims about two workers on the same tables, checked under              *)
(* SpecTwoWorkers.                                                         *)

\* C20: no job is in the hands of a processor of this worker and of a
\* processor of the peer at the same time.
C20_ClaimExclusiveAcrossWorkers ==
    \A j \in Jobs :
        ~(/\ proc[j].pc \notin {"idle", "returned"}
          /\ peer.proc[j] \in {"claim", "working"})

----------------------------------------------------------------------------
(* Claims about progress, checked under SpecLive.                          *)

\* C13: with the timer firing again and again and every call returning,
\* every job that is PENDING while the worker runs (its startup check has
\* succeeded) is DONE or FAILED at some later time.
C13_EveryPendingJobTerminates ==
    \A j \in 1..(LiveFlashcardJobs + LiveQuizJobs) :
        (jobs[j].status = "PENDING" /\ mainPc \in {"initialPoll", "running"})
            ~> (jobs[j].status \in {"DONE", "FAILED"})

----------------------------------------------------------------------------
(* Further claims about executeWithRetry, checked under SpecRetry.         *)

\* C30: the wait after the k-th failed transient attempt is k * 1000 ms, and
\* there is no wait after the final attempt: a call of maxRetries attempts
\* waits at most maxRetries - 1 times, and it is never waiting once the
\* operation has been attempted maxRetries times.
C30_LinearBackoffNoFinalWait ==
    /\ \A k \in 1..Len(sleeps) : sleeps[k] = k * 1000
    /\ Len(sleeps) <= maxRetries - 1
    /\ invocations = maxRetries => retryPc # "sleep"

----------------------------------------------------------------------------
(* Further claims about runInBatches, checked under SpecBatch.             *)

\* The smaller of the limit and the number of tasks.
Budget == IF limit < Len(tasks) THEN limit ELSE Len(tasks)

\* C29: the cursor never goes back and advances by one per task started,
\* the tasks started in a step being the next ones of the list; the step in
\* which the runNext frame of a settled task resumes starts the next task of
\* the list when one is left; so the tasks started are always the first
\* index tasks of the list, and while unstarted tasks remain the runner
\* holds exactly min(limit, number of tasks) tasks, all of them unsettled
\* unless a settled one is still waiting for its frame to resume.
C29_CursorKeepsBudgetFull ==
    /\ [][ /\ index' >= index
           /\ \A k \in 1..Len(tasks') :
                 (started'[tasks'[k]] > started[tasks'[k]]) <=> (index < k /\ k <= index')
           /\ \A t \in awaited :
                 (t \notin awaited' /\ index < Len(tasks)) =>
                     /\ index' = index + 1
                     /\ taskState'[tasks[index + 1]] = "pending"
                     /\ tasks[index + 1] \in awaited' ]_vars
    /\ [](batchPc = "running" =>
            /\ \A k \in 1..Len(tasks) : (started[tasks[k]] = 1) <=> (k <= index)
            /\ \A k \in 1..Len(tasks) : started[tasks[k]] <= 1
            /\ index < Len(tasks) =>
                 /\ Len(active) = Budget
                 /\ Cardinality(awaited) = Budget
                 /\ (\A t \in awaited : taskState[t] = "pending") =>
                        Cardinality(InFlight) = Budget)

\* Five tasks, limit 3: the first task has settled and the fourth was started
\* in its place; three tasks are in flight and the fifth is still to start.
C29_Witness ==
    /\ batchPc = "running"
    /\ Len(tasks) = 5 /\ limit = 3
    /\ index = 4
    /\ taskState[1] \in Settled
    /\ active = <<2, 3, 4>>
    /\ Cardinality(InFlight) = 3

----------------------------------------------------------------------------
(* Further claims about the worker, checked under Spec.                    *)

\* The claim write of the job has succeeded at some time: the row has left
\* PENDING (a FAILED row may also be one whose claim write threw).
PastPending(row) == row.status \notin {"ABSENT", "PENDING"}

\* C21: within one worker no job is claimed twice: a row that has left PENDING
\* never is PENDING again, and from then on no step puts the job into the
\* task list of a batch, starts its processor or issues its claim write.
C21_NoJobClaimedTwice ==
    [][\A j \in Jobs :
          PastPending(jobs[j]) =>
              /\ PastPending(jobs'[j])
              /\ ~(taskState[j] # "pending" /\ taskState'[j] = "pending")
              /\ (tasks' # tasks => \A k \in 1..Len(tasks') : tasks'[k] # j)
              /\ (proc[j].pc # "claim" => proc'[j].pc # "claim")]_vars

\* A later poll cycle fetches the flashcard jobs while the row of job 1, which
\* an earlier cycle claimed, is still PROCESSING.
C21_Witness ==
    /\ mainPc = "running"
    /\ pollPc = "fetch" /\ pollKind = "flashcard"
    /\ jobs[1].status = "PROCESSING"

\* C23: at most one artifact is ever created for a job, and a step that
\* creates an artifact for a job finds the job's row PROCESSING and leaves it so.
C23_NoDuplicateArtifacts ==
    /\ [](\A j \in Jobs : Cardinality({a \in artifacts : a.job = j}) <= 1)
    /\ [][\A a \in artifacts' \ artifacts :
             /\ jobs[a.job].status = "PROCESSING"
             /\ jobs'[a.job].status = "PROCESSING"
             /\ \A b \in artifacts : b.job # a.job]_vars

\* The create call of job 1 succeeded, the DONE write threw and the run is in
\* its catch block: one artifact exists for the job, whose row is PROCESSING.
C23_Witness ==
    /\ proc[1].pc = "markFailed"
    /\ proc[1].claimed
    /\ Cardinality({a \in artifacts : a.job = 1}) = 1
    /\ jobs[1].status = "PROCESSING"

\* C24: the output of the generation call is validated: no artifact is ever
\* created with zero children, a run whose generation call returned nothing
\* creates none, and no DONE row refers to an artifact with zero children.
C24_EmptyOutputRejected ==
    /\ \A a \in artifacts : Len(a.orders) > 0
    /\ \A j \in Jobs : proc[j].pc = "create" => proc[j].items > 0
    /\ \A j \in Jobs :
          jobs[j].status = "DONE" =>
              \A a \in artifacts : a.id = jobs[j].resultRef => Len(a.orders) > 0

TransientText == Text(ErrorText(PoolMessageError))

\* C28: a run calls the extraction at most once and the generation at most
\* once, whatever the persistence calls around them do, and a rejection of
\* either goes to the FAILED write at once.  A persistence attempt that is
\* retried changes nothing of the run but its attempt count (and the count of
\* create calls): the run stays at the same call, catches nothing, and the
\* row is not touched.  A run catches a pool-exhaustion error of a persistence
\* call only from the third attempt of that call.
C28_PermanentErrorsFailFast ==
    /\ [](\A j \in Jobs : proc[j].extractCalls <= 1 /\ proc[j].generateCalls <= 1)
    /\ [][\A j \in Jobs :
            /\ (proc[j].pc \in {"extract", "generate"} /\ proc'[j] # proc[j]) =>
                  /\ proc'[j].pc # proc[j].pc
                  /\ proc'[j].extractCalls = proc[j].extractCalls
                  /\ proc'[j].generateCalls <= 1
            /\ (proc[j].pc \in PersistencePcs /\ proc'[j].attempt = proc[j].attempt + 1) =>
                  /\ proc'[j].pc = proc[j].pc
                  /\ proc'[j].failed = proc[j].failed
                  /\ proc'[j].caught = proc[j].caught
                  /\ proc'[j].extractCalls = proc[j].extractCalls
                  /\ proc'[j].generateCalls = proc[j].generateCalls
                  /\ jobs'[j] = jobs[j]
                  /\ artifacts' = artifacts
            /\ (proc[j].pc \in PersistencePcs /\ ~proc[j].failed /\ proc'[j].failed
                  /\ proc'[j].caught = TransientText) =>
                  proc[j].attempt = 2
            /\ (proc[j].pc = "markFailed" /\ proc'[j].pc = "returned"
                  /\ ~proc'[j].failedWritten /\ proc[j].attempt < 2) =>
                  jobs'[j] = jobs[j]]_vars

\* The create call of job 1 met two pool-exhaustion errors and succeeded at
\* its third attempt: the generation was called once and the run goes on to
\* the DONE write.
C28_Witness ==
    /\ proc[1].pc = "markDone"
    /\ proc[1].createCalls = 3
    /\ proc[1].generateCalls = 1
    /\ ~proc[1].failed
    /\ Cardinality({a \in artifacts : a.job = 1}) = 1

----------------------------------------------------------------------------
(* Claims about the file reference, checked under SpecReferences.          *)

\* The job of run p was submitted with a file reference that isValidUrl rejects.
ReferenceRejected(p) == p.job.fileUrl.raw # "" /\ ~isValidUrl(p.job.fileUrl)

\* The message names the reference.
IdentifiesReference(message, url) ==
    /\ ~message.isNull
    /\ \E k \in 1..Len(message.words) : message.words[k] = url.raw

\* The verdicts of isValidUrl the claim lists, and the rule behind them.
AcceptsHttpHttpsR2 ==
    /\ isValidUrl(HttpsUrl) /\ isValidUrl(R2Url)
    /\ ~isValidUrl(FtpUrl) /\ ~isValidUrl(NotAUrl)
    /\ \A u \in ReferenceUrls :
          isValidUrl(u) <=> (u.wellFormed /\ u.protocol \in {"http:", "https:", "r2:"})

\* C25 as stated: every job with a rejected file reference ends FAILED with
\* an error that names the reference.
C25_AsStated ==
    \A j \in Jobs :
        (proc[j].pc = "returned" /\ ReferenceRejected(proc[j])) =>
            /\ jobs[j].status = "FAILED"
            /\ IdentifiesReference(jobs[j].error, proc[j].job.fileUrl)

\* C25: isValidUrl accepts the well-formed URLs of protocol http, https or
\* r2 and no other string; a run whose claim write succeeded and whose file
\* reference is rejected calls neither the extraction nor the generation nor
\* the create call and goes to the FAILED write with an error that names the
\* reference; when that write succeeds the row ends FAILED with this error,
\* and when it throws the row stays PROCESSING with no error.
C25_InvalidReferenceFails ==
    /\ AcceptsHttpHttpsR2
    /\ \A j \in Jobs :
          (proc[j].claimed /\ ReferenceRejected(proc[j])) =>
              /\ proc[j].pc \in {"markFailed", "returned"}
              /\ proc[j].extractCalls = 0
              /\ proc[j].generateCalls = 0
              /\ proc[j].createCalls = 0
              /\ \A a \in artifacts : a.job # j
              /\ proc[j].pc = "markFailed" =>
                    /\ IdentifiesReference(proc[j].caught, proc[j].job.fileUrl)
                    /\ jobs[j].status = "PROCESSING"
              /\ proc[j].pc = "returned" =>
                    IF proc[j].failedWritten
                    THEN /\ jobs[j].status = "FAILED"
                         /\ IdentifiesReference(jobs[j].error, proc[j].job.fileUrl)
                         /\ jobs[j].error = Text(ErrorText(InvalidUrlError(proc[j].job.fileUrl)))
                    ELSE /\ jobs[j].status = "PROCESSING"
                         /\ jobs[j].error = Null
    /\ \A j \in Jobs :
          proc[j].pc = "extract" => isValidUrl(proc[j].job.fileUrl)

\* A job submitted with "ftp://x" has ended FAILED.
C25_Witness ==
    /\ proc[1].pc = "returned"
    /\ proc[1].claimed /\ proc[1].failedWritten
    /\ proc[1].job.fileUrl = FtpUrl
    /\ jobs[1].status = "FAILED"

----------------------------------------------------------------------------
(* Claims about the text of a job, checked under SpecContents.             *)

\* The job of run p has no file reference and an inline text (or none) of
\* fewer than 50 characters.
InlineBelowMinimum(p) == p.job.fileUrl.raw = "" /\ p.job.text.len < 50

\* The message of the length check, and that it names the minimum.
TooShortText(j) == Text(ErrorText(TooShortError(KindOf(j))))

MentionsMinimum(message) ==
    /\ ~message.isNull
    /\ \E k \in 1..(Len(message.words) - 2) :
          /\ message.words[k] = "(minimum"
          /\ message.words[k + 1] = "50"
          /\ message.words[k + 2] = "characters)"

\* C26 as stated: every job whose inline text is below the minimum ends
\* FAILED with an error that mentions the minimum.
C26_AsStated ==
    \A j \in Jobs :
        (proc[j].pc = "returned" /\ InlineBelowMinimum(proc[j])) =>
            /\ jobs[j].status = "FAILED"
            /\ MentionsMinimum(jobs[j].error)

\* C26: the generation call is only ever made with a text of at least 50
\* characters.  A run whose claim write succeeded and whose inline text has
\* fewer than 50 characters, or is absent, calls no strategy and creates no
\* artifact; a run whose extracted text has fewer than 50 characters does not
\* call the generation.  Both go to the FAILED write with the error that
\* mentions the 50-character minimum; when that write succeeds the row ends
\* FAILED with this error, and when it throws the row stays PROCESSING.
C26_MinimumContentLength ==
    /\ [](\A j \in Jobs :
            /\ proc[j].pc = "generate" => proc[j].text.len >= 50
            /\ proc[j].generateCalls > 0 =>
                  IF proc[j].job.fileUrl.raw = ""
                  THEN proc[j].job.text.len >= 50
                  ELSE proc[j].extractCalls = 1
            /\ (proc[j].claimed /\ InlineBelowMinimum(proc[j])) =>
                  /\ proc[j].pc \in {"markFailed", "returned"}
                  /\ proc[j].extractCalls = 0
                  /\ proc[j].generateCalls = 0
                  /\ proc[j].createCalls = 0
                  /\ \A a \in artifacts : a.job # j
                  /\ proc[j].pc = "markFailed" =>
                        /\ proc[j].caught = TooShortText(j)
                        /\ MentionsMinimum(proc[j].caught)
                        /\ jobs[j].status = "PROCESSING"
                  /\ proc[j].pc = "returned" =>
                        IF proc[j].failedWritten
                        THEN /\ jobs[j].status = "FAILED"
                             /\ jobs[j].error = TooShortText(j)
                        ELSE /\ jobs[j].status = "PROCESSING"
                             /\ jobs[j].error = Null)
    /\ [][\A j \in Jobs :
            /\ \A c \in FileContents :
                  (ExtractResolves(j, c) /\ c.len < 50) =>
                      /\ proc'[j].pc = "markFailed"
                      /\ proc'[j].caught = TooShortText(j)
                      /\ proc'[j].generateCalls = 0
                      /\ proc'[j].createCalls = 0
            /\ (proc[j].pc = "markFailed" /\ proc[j].claimed /\ proc[j].caught = TooShortText(j)) =>
                  /\ {a \in artifacts' : a.job = j} = {a \in artifacts : a.job = j}
                  /\ proc'[j].pc \in {"markFailed", "returned"}
                  /\ proc'[j].pc = "returned" =>
                        IF proc'[j].failedWritten
                        THEN /\ jobs'[j].status = "FAILED"
                             /\ jobs'[j].error = TooShortText(j)
                             /\ MentionsMinimum(jobs'[j].error)
                        ELSE jobs'[j].status = "PROCESSING"]_vars

\* A job submitted with an inline text of 49 characters has ended FAILED.
C26_Witness ==
    /\ proc[1].pc = "returned"
    /\ proc[1].claimed /\ proc[1].failedWritten
    /\ proc[1].job.text.len = 49
    /\ jobs[1].status = "FAILED"
    /\ MentionsMinimum(jobs[1].error)

\* The job of run p has no file reference and an inline text of at least 50
\* characters.
InlineAtLeastMinimum(p) == p.job.fileUrl.raw = "" /\ p.job.text.len >= 50

\* What the calls of a run can fail with: the errors of the persistence
\* calls and of the generation call, as the FAILED write would store them.
CallErrorTexts ==
    {Text(ErrorText(o.error)) : o \in DbOutcomes \ {Ok("rows")}}
        \cup {Text(ErrorText(e)) : e \in GenerateErrors}

ArtifactsOf(j) == {a \in artifacts : a.job = j}

\* C27: a run for a job with an inline text of at least 50 characters and no
\* file reference fails only when one of its calls fails.  Until then it
\* never calls the extraction, it calls the generation once, with the text of
\* the job, it creates one artifact with one child per returned card, and
\* the row goes from PENDING to PROCESSING at the claim and from PROCESSING
\* to DONE, with a reference to the artifact, at the end.
C27_InlineTextHappyPath ==
    /\ [](\A j \in Jobs :
            (proc[j].claimed /\ InlineAtLeastMinimum(proc[j])) =>
                /\ proc[j].failed =>
                      /\ proc[j].extractCalls = 0
                      /\ proc[j].pc = "markFailed" => proc[j].caught \in CallErrorTexts
                      /\ (proc[j].pc = "returned" /\ proc[j].failedWritten) =>
                            jobs[j].error \in CallErrorTexts
                /\ ~proc[j].failed =>
                      /\ proc[j].pc \in {"generate", "create", "markDone", "returned"}
                      /\ proc[j].extractCalls = 0
                      /\ proc[j].pc = "generate" =>
                            /\ proc[j].generateCalls = 1
                            /\ proc[j].text = proc[j].job.text
                            /\ ArtifactsOf(j) = {}
                            /\ jobs[j].status = "PROCESSING"
                      /\ proc[j].pc = "create" =>
                            /\ proc[j].generateCalls = 1
                            /\ ArtifactsOf(j) = {}
                            /\ jobs[j].status = "PROCESSING"
                      /\ proc[j].pc = "markDone" =>
                            /\ proc[j].generateCalls = 1
                            /\ \E a \in artifacts :
                                  /\ ArtifactsOf(j) = {a}
                                  /\ a.id = proc[j].artifact
                                  /\ Len(a.orders) = proc[j].items
                            /\ jobs[j].status = "PROCESSING"
                      /\ proc[j].pc = "returned" =>
                            /\ taskState[j] = "fulfilled"
                            /\ jobs[j].status = "DONE"
                            /\ jobs[j].error = Null
                            /\ \E a \in artifacts :
                                  /\ ArtifactsOf(j) = {a}
                                  /\ a.id = jobs[j].resultRef)
    /\ [][\A j \in Jobs :
            (proc'[j].claimed /\ InlineAtLeastMinimum(proc'[j]) /\ ~proc'[j].failed
               /\ jobs'[j].status # jobs[j].status) =>
                  <<jobs[j].status, jobs'[j].status>> \in
                      {<<"PENDING", "PROCESSING">>, <<"PROCESSING", "DONE">>}]_vars

\* A job submitted with an inline text of 50 characters has ended DONE with
\* an artifact of two cards, no call having failed.
C27_Witness ==
    /\ proc[1].pc = "returned"
    /\ proc[1].claimed /\ ~proc[1].failed
    /\ proc[1].job.text.len = 50 /\ proc[1].job.fileUrl = NullUrl
    /\ jobs[1].status = "DONE"
    /\ \E a \in artifacts : a.id = jobs[1].resultRef /\ Len(a.orders) = 2

----------------------------------------------------------------------------
(* Claims about the load on the database, checked under SpecLoad.          *)

\* new Pool({ max: 3 }) (src/unnamed/part_000:11)
PoolSize == 3

\* The persistence calls in flight: the connectivity probe of main, the
\* fetch query of the poll, and the call each running processor waits for
\* (a processor that backs off between two attempts is counted too).
PersistenceCallsInFlight ==
    (IF mainPc = "probe" THEN 1 ELSE 0)
        + (IF Alive /\ pollPc = "fetch" THEN 1 ELSE 0)
        + Cardinality({j \in Jobs : taskState[j] = "pending" /\ proc[j].pc \in PersistencePcs})

\* C22: at most L = 3 persistence calls are in flight at any time, which is
\* the size of the connection pool.
C22_BoundedDbLoad ==
    /\ FLASHCARD_CONCURRENCY_LIMIT = PoolSize
    /\ QUIZ_CONCURRENCY_LIMIT = PoolSize
    /\ PersistenceCallsInFlight <= 3

\* Four jobs were fetched: three processors wait for a persistence call, one
\* of them for a retried create call, and the fourth job waits for its turn.
C22_Witness ==
    /\ Len(tasks) = 4 /\ index = 3
    /\ PersistenceCallsInFlight = 3
    /\ \E j \in Jobs : proc[j].pc = "create" /\ proc[j].attempt = 1

----------------------------------------------------------------------------
(* Claims about the scheduler, checked under Spec.                         *)

\* The cycle is at the flashcard jobs / at the quiz jobs.
AtFlashcards == pollPc \in {"fetch", "batch"} /\ pollKind = "flashcard"
AtQuizzes == pollPc \in {"fetch", "batch"} /\ pollKind = "quiz"

\* C31: isPolling is true exactly while a cycle runs, and the step that ends
\* a cycle, whatever failed in it, sets it to false; a firing of the timer
\* with no cycle running and no shutdown requested starts a cycle, at the
\* fetch of the flashcard jobs; however the flashcard part of a cycle ends
\* (its fetch throws, finds nothing, or its batch returns), the quiz fetch of
\* the same cycle is issued, and when that fetch returns pending quiz jobs
\* their batch is started.
C31_SchedulerNeverWedges ==
    /\ [](isPolling <=> pollPc # "idle")
    /\ [](isPolling <=> activePollJobs = 1)
    /\ [][ /\ (pollPc # "idle" /\ pollPc' = "idle") => ~isPolling'
           /\ (TimerFires /\ ~isPolling /\ ~shutdownRequested) =>
                 /\ isPolling'
                 /\ pollPc' = "fetch" /\ pollKind' = "flashcard"
           /\ (AtFlashcards /\ ~AtFlashcards') =>
                 /\ isPolling'
                 /\ pollPc' = "fetch" /\ pollKind' = "quiz"
           /\ (AtQuizzes /\ ~AtQuizzes') => (pollPc' = "idle" /\ ~isPolling')
           /\ (AtQuizzes /\ pollPc = "fetch" /\ FetchResponds(Ok("rows"))
                 /\ SelectPending("quiz") # << >>) =>
                 /\ pollPc' = "batch"
                 /\ tasks' = SelectPending("quiz")
                 /\ \A k \in 1..Len(tasks') : k <= limit' => proc'[tasks'[k]].pc = "claim" ]_vars

\* The first cycle left the flashcard job PENDING (its fetch threw, or its
\* claim write and its FAILED write did) and ran the quiz job, which ended
\* FAILED; the timer has fired since and a new cycle is at its flashcard fetch.
C31_Witness ==
    /\ mainPc = "running" /\ ticks = 1
    /\ isPolling /\ pollPc = "fetch" /\ pollKind = "flashcard"
    /\ ~shutdownRequested
    /\ jobs[1].status = "PENDING"
    /\ jobs[2].status = "FAILED"

----------------------------------------------------------------------------
(* Claims about the shutdown triggers, checked under SpecProcess.          *)

\* C32: however many signals and faults arrive, shutdown() runs its sequence
\* at most once (once requested, a shutdown stays requested with the cause
\* that started it and goes from draining to disconnecting and no other
\* way, and it disconnects only with no cycle running), and the process
\* never exits while isPolling is true.
C32_ShutdownIdempotent ==
    /\ [][ /\ shutdownRequested =>
                 /\ shutdownRequested'
                 /\ shutdownCause' = shutdownCause
                 /\ <<shutdownPc, shutdownPc'>> \in
                       {<<"draining", "draining">>, <<"draining", "disconnecting">>,
                        <<"disconnecting", "disconnecting">>}
           /\ (shutdownPc # "disconnecting" /\ shutdownPc' = "disconnecting") => ~isPolling
           /\ (mainPc # "exited" /\ mainPc' = "exited") => ~isPolling ]_vars
    /\ [](mainPc = "exited" => ~isPolling)

====
